---- MODULE Spec2Model ----
(***************************************************************************)
(* A model of the remote CRUD-to-RPC translation layer of Types/_source:   *)
(* SbisService (the business-logic CRUD source), Remote (its base) and the *)
(* SbisBusinessLogic provider with its client-side timeout.                *)
(*                                                                         *)
(* Strings are sequences of UTF-16 code units, so that the regular         *)
(* expressions and indexOf/split of the source are computed character by   *)
(* character.  In comments a string is written as in the source.           *)
(***************************************************************************)
EXTENDS Integers, Sequences, FiniteSets, TLC

VARIABLES
    \* --- getKeyByComplexId / getNameByComplexId / createComplexId on one id
    cidPc, cidId, cidDefaults, cidKey, cidName, cidPair,
    \* --- getGroupsByComplexIds on a list of ids
    grpPc, grpIds, grpDefaults, grpResult,
    \* --- the source (SbisService), its provider and the transport
    givenEndpoint, \* the endpoint option handed to the constructor
    endpoint,      \* _$endpoint: contract and moveContract
    binding,       \* _$binding: remote method name of each operation
    orderProperty, \* _$orderProperty
    callTimeout,   \* the provider's _$callTimeout, in ms (0: no timeout)
    itsPromise,    \* the transport answers with a Promise (else a Deferred)
    debug,         \* _$options.debug
    observer,      \* what the subscriber of onBeforeProviderCall does, if any
    passing,       \* _$passing: the default strategies or configured ones
    adapter,       \* the adapter of the source, by what its serialize does
    calls,         \* every Provider.call made so far
    ops,           \* every operation invoked on the source so far
    server,        \* the remote calls the service has carried out
    abortCalls,    \* how often the transport's abort() was invoked
    \* --- the arguments of query(): passQuery on one query
    navPc,
    navQuery,      \* the query handed in (with its unioned sub-queries)
    navGiven,      \* the options handed to the constructor of the source
    navOptions,    \* _$options of the source
    navResult,     \* what getNavigationParams returned, one entry per sub-query
    navWhere,      \* the filter of each sub-query after the call
    navArgs,       \* what passQuery returned
    \* --- the qualification of one method name
    mnPc,
    mnObject,      \* endpoint.contract of the provider, objectName of the source
    mnName,        \* the method name
    mnCalled,      \* the name SbisBusinessLogic.call hands to the transport
    mnBuilt,       \* the name buildBlMethodName returns
    \* --- update(data, meta) of the source
    updPc,
    updData,       \* the record or record-set handed in
    updMeta,       \* the meta data handed in
    updOptions,    \* _$options: updateOnlyChanged, passAddFieldsFromMeta
    updIdProperty, \* _$idProperty of the source
    updBinding,    \* _$binding: update and updateBatch
    updSuper,      \* what Remote's update strategy returned, if it was asked
    updCalls,      \* the calls of _callProvider: name and arguments
    \* --- one function made by debounce(original, delay, first)
    dbRevision,    \* which of the two definitions of debounce.ts made it
    dbDelay,       \* delay, in ms
    dbFirst,       \* first
    dbNow,         \* the time, in ms since the function was made
    dbTimer,       \* timer / timers: the pending timeout, if any
    dbStates,      \* firstCalled and sequentialCall
    dbCalls,       \* the calls of the function so far
    dbLog,         \* the invocations of original so far
    \* --- calls of SbisService.query on one query object of the caller
    qryGiven,      \* the query as the caller built it
    qryOptions,    \* _$options of the source
    qryHeap,       \* the query objects: the caller's at 0, those made since
    qryCalls       \* the calls of query() so far

cidVars == <<cidPc, cidId, cidDefaults, cidKey, cidName, cidPair>>
grpVars == <<grpPc, grpIds, grpDefaults, grpResult>>
cfgVars == <<givenEndpoint, endpoint, binding, orderProperty, callTimeout, itsPromise, debug, observer,
             passing, adapter>>
svcVars == <<cfgVars, calls, ops, server, abortCalls>>
navVars == <<navPc, navQuery, navGiven, navOptions, navResult, navWhere, navArgs>>
mnVars == <<mnPc, mnObject, mnName, mnCalled, mnBuilt>>
updVars == <<updPc, updData, updMeta, updOptions, updIdProperty, updBinding, updSuper,
             updCalls>>
dbVars == <<dbRevision, dbDelay, dbFirst, dbNow, dbTimer, dbStates, dbCalls, dbLog>>
qryVars == <<qryGiven, qryOptions, qryHeap, qryCalls>>
vars == <<cidVars, grpVars, svcVars, navVars, mnVars, updVars, dbVars, qryVars>>

----------------------------------------------------------------------------
(* Bounds of the model *)

\* longest identifier drawn character by character
MaxIdLen == 4
\* longest list of identifiers given to getGroupsByComplexIds
MaxIds == 3
\* most Provider.call invocations in one behaviour
MaxCalls == 2
\* most operations invoked on the source in one behaviour
MaxOps == 1
\* Longest filter expression (number of keys) of a query
MaxFilterLen == 2
\* Largest offset and limit of a query
MaxOffset == 5
MaxLimit == 3
\* Most sub-queries of one query (the query itself and its unions)
MaxSubQueries == 3
\* longest method name drawn character by character
MaxNameLen == 3

----------------------------------------------------------------------------
(* Strings *)

\* String.prototype.indexOf for a one-character needle: 0-based, -1 when absent
indexOf(s, c) ==
    IF \E i \in 1..Len(s) : s[i] = c
    THEN (CHOOSE i \in 1..Len(s) : s[i] = c /\ \A j \in 1..(i - 1) : s[j] # c) - 1
    ELSE -1

\* String.prototype.split for a one-character separator
RECURSIVE split(_, _)
split(s, sep) ==
    LET i == indexOf(s, sep)
    IN  IF i = -1 THEN <<s>>
        ELSE <<SubSeq(s, 1, i)>> \o split(SubSeq(s, i + 2, Len(s)), sep)

\* String.prototype.split(sep, limit)
splitLimit(s, sep, limit) ==
    LET parts == split(s, sep)
    IN  SubSeq(parts, 1, IF Len(parts) < limit THEN Len(parts) ELSE limit)

InRange(c, lo, hi) == c >= lo /\ c <= hi

\* '.'
BL_OBJECT_SEPARATOR == 46
\* ','
COMPLEX_ID_SEPARATOR == 44

\* the character class [0-9]
IsDigit(c) == InRange(c, 48, 57)

\* A narrower class than the source's: [A-Za-z0-9]
StrictNameChar(c) == InRange(c, 65, 90) \/ InRange(c, 97, 122) \/ IsDigit(c)

\* the character class [А-яA-z0-9] of COMPLEX_ID_MATCH: U+0410..U+044F,
\* U+0041..U+007A (which holds [ \ ] ^ _ ` between Z and a) and the digits
ComplexIdNameChar(c) == InRange(c, 1040, 1103) \/ InRange(c, 65, 122) \/ IsDigit(c)

\* A variant of COMPLEX_ID_MATCH with the narrower class: /^[0-9]+,[A-Za-z0-9]+$/
StrictComplexIdMatch(id) ==
    \E k \in 2..(Len(id) - 1) :
        /\ id[k] = COMPLEX_ID_SEPARATOR
        /\ \A i \in 1..(k - 1) : IsDigit(id[i])
        /\ \A i \in (k + 1)..Len(id) : StrictNameChar(id[i])

\* id.match(/^[0-9]+,[А-яA-z0-9]+$/)
COMPLEX_ID_MATCH(id) ==
    \E k \in 2..(Len(id) - 1) :
        /\ id[k] = COMPLEX_ID_SEPARATOR
        /\ \A i \in 1..(k - 1) : IsDigit(id[i])
        /\ \A i \in (k + 1)..Len(id) : ComplexIdNameChar(id[i])

\* Identifiers are modelled as strings: String(id || '') is the identity on a
\* non-empty string and maps every falsy id to ''.
getKeyByComplexId(id) ==
    IF COMPLEX_ID_MATCH(id) THEN split(id, COMPLEX_ID_SEPARATOR)[1] ELSE id

getNameByComplexId(id, defaults) ==
    IF COMPLEX_ID_MATCH(id) THEN split(id, COMPLEX_ID_SEPARATOR)[2] ELSE defaults

createComplexId(id, defaults) ==
    IF COMPLEX_ID_MATCH(id) THEN splitLimit(id, COMPLEX_ID_SEPARATOR, 2)
    ELSE <<id, defaults>>

----------------------------------------------------------------------------
(* Identifier parsing on one identifier *)

\* '1' ',' '-' 'A' '_' 'z' 'Я'
IdAlphabet == {49, 44, 45, 65, 95, 122, 1071}

RECURSIVE StringsUpTo(_, _)
StringsUpTo(alphabet, n) ==
    IF n = 0 THEN {<<>>}
    ELSE LET shorter == StringsUpTo(alphabet, n - 1)
         IN  shorter \cup {Append(s, c) : s \in {t \in shorter : Len(t) = n - 1}, c \in alphabet}

\* "Dflt"
DefaultContract == <<68, 102, 108, 116>>

\* undefined where a name is expected, as the contract of an endpoint given
\* none is: told from every string by a unit no string has
NoContract == <<-1>>

\* the string a name makes as a property key or in a concatenation:
\* 'undefined' for undefined
StringOf(name) ==
    IF name = NoContract THEN <<117, 110, 100, 101, 102, 105, 110, 101, 100>> ELSE name

CidParked ==
    /\ cidPc = "off" /\ cidId = <<>> /\ cidDefaults = <<>>
    /\ cidKey = <<>> /\ cidName = <<>> /\ cidPair = <<>>

GrpParked ==
    /\ grpPc = "off" /\ grpIds = <<>> /\ grpDefaults = <<>>
    /\ grpResult = [threw |-> FALSE, names |-> <<>>, keys |-> <<>>]

SvcParked ==
    /\ givenEndpoint = [contract |-> <<>>, moveContract |-> <<>>]
    /\ endpoint = [contract |-> <<>>, moveContract |-> <<>>]
    /\ binding = [destroy |-> <<>>, move |-> <<>>, read |-> <<>>, update |-> <<>>,
                  moveBefore |-> <<>>, moveAfter |-> <<>>]
    /\ orderProperty = <<>>
    /\ callTimeout = 0 /\ itsPromise = TRUE
    /\ debug = FALSE /\ observer = "none" /\ passing = "default" /\ adapter = "returning"
    /\ calls = <<>> /\ ops = <<>> /\ server = {} /\ abortCalls = 0

NavParked ==
    /\ navPc = "off" /\ navQuery = <<>> /\ navGiven = <<>> /\ navOptions = <<>>
    /\ navResult = <<>> /\ navWhere = <<>> /\ navArgs = <<>>

MnParked ==
    /\ mnPc = "off" /\ mnObject = <<>> /\ mnName = <<>>
    /\ mnCalled = <<>> /\ mnBuilt = <<>>

UpdParked ==
    /\ updPc = "off" /\ updData = <<>> /\ updMeta = <<>> /\ updOptions = <<>>
    /\ updIdProperty = "" /\ updBinding = <<>> /\ updSuper = <<>> /\ updCalls = <<>>

DbParked ==
    /\ dbRevision = "off" /\ dbDelay = 0 /\ dbFirst = FALSE /\ dbNow = 0
    /\ dbTimer = <<>> /\ dbStates = <<>> /\ dbCalls = <<>> /\ dbLog = <<>>

QryParked ==
    /\ qryGiven = <<>> /\ qryOptions = <<>> /\ qryHeap = <<>> /\ qryCalls = <<>>

InitComplexId ==
    /\ cidPc = "input"
    /\ cidId \in StringsUpTo(IdAlphabet, MaxIdLen)
    /\ cidDefaults = DefaultContract
    /\ cidKey = <<>> /\ cidName = <<>> /\ cidPair = <<>>
    /\ GrpParked /\ SvcParked /\ NavParked /\ MnParked /\ UpdParked /\ DbParked /\ QryParked

ParseComplexId ==
    /\ cidPc = "input"
    /\ cidPc' = "done"
    /\ cidKey' = getKeyByComplexId(cidId)
    /\ cidName' = getNameByComplexId(cidId, cidDefaults)
    /\ cidPair' = createComplexId(cidId, cidDefaults)
    /\ UNCHANGED <<cidId, cidDefaults, grpVars, svcVars, navVars, mnVars, updVars, dbVars, qryVars>>

NextComplexId == ParseComplexId

SpecComplexId == InitComplexId /\ [][NextComplexId]_vars

----------------------------------------------------------------------------
(* Grouping of identifiers by object name *)

\* The properties every plain object ({}) inherits from Object.prototype
ObjectPrototypeNames == {
      <<99, 111, 110, 115, 116, 114, 117, 99, 116, 111, 114>>,  \* constructor
      <<104, 97, 115, 79, 119, 110, 80, 114, 111, 112, 101, 114, 116, 121>>,  \* hasOwnProperty
      <<105, 115, 80, 114, 111, 116, 111, 116, 121, 112, 101, 79, 102>>,  \* isPrototypeOf
      <<112, 114, 111, 112, 101, 114, 116, 121, 73, 115, 69, 110, 117, 109, 101, 114, 97, 98, 108, 101>>,  \* propertyIsEnumerable
      <<116, 111, 76, 111, 99, 97, 108, 101, 83, 116, 114, 105, 110, 103>>,  \* toLocaleString
      <<116, 111, 83, 116, 114, 105, 110, 103>>,  \* toString
      <<118, 97, 108, 117, 101, 79, 102>>,  \* valueOf
      <<95, 95, 112, 114, 111, 116, 111, 95, 95>>,  \* __proto__
      <<95, 95, 100, 101, 102, 105, 110, 101, 71, 101, 116, 116, 101, 114, 95, 95>>,  \* __defineGetter__
      <<95, 95, 100, 101, 102, 105, 110, 101, 83, 101, 116, 116, 101, 114, 95, 95>>,  \* __defineSetter__
      <<95, 95, 108, 111, 111, 107, 117, 112, 71, 101, 116, 116, 101, 114, 95, 95>>,  \* __lookupGetter__
      <<95, 95, 108, 111, 111, 107, 117, 112, 83, 101, 116, 116, 101, 114, 95, 95>>   \* __lookupSetter__
    }

\* position of x in the sequence s, 0 when absent
PosIn(s, x) ==
    IF \E i \in 1..Len(s) : s[i] = x THEN CHOOSE i \in 1..Len(s) : s[i] = x ELSE 0

\* The empty object literal {}: own property names in creation order, and the
\* value (a list of keys) of each
EmptyGroups == [threw |-> FALSE, names |-> <<>>, keys |-> <<>>]

\* One turn of the loop of getGroupsByComplexIds:
\*     groups[name] = groups[name] || [];  groups[name].push(key)
\* groups[name] reads an own property, else the one inherited from
\* Object.prototype; an inherited one is truthy and has no push(), so the
\* second statement throws a TypeError.
groupsPush(groups, name, key) ==
    LET own == StringOf(name)
        pos == PosIn(groups.names, own)
    IN  IF pos > 0 THEN [groups EXCEPT !.keys[pos] = Append(@, key)]
        ELSE IF own \in ObjectPrototypeNames THEN [groups EXCEPT !.threw = TRUE]
        ELSE [groups EXCEPT !.names = Append(@, own), !.keys = Append(@, <<key>>)]

RECURSIVE groupsLoop(_, _, _, _)
groupsLoop(ids, defaults, i, groups) ==
    IF i > Len(ids) \/ groups.threw THEN groups
    ELSE groupsLoop(ids, defaults, i + 1,
            groupsPush(groups, getNameByComplexId(ids[i], defaults), getKeyByComplexId(ids[i])))

getGroupsByComplexIds(ids, defaults) == groupsLoop(ids, defaults, 1, EmptyGroups)

\* An array index in the sense of ECMAScript's property order: a canonical
\* decimal numeral below 2^32 - 1 ("0", or digits without a leading zero)
LexLess(a, b) ==
    \E i \in 1..Len(a) : a[i] < b[i] /\ \A j \in 1..(i - 1) : a[j] = b[j]

NumeralLess(a, b) == Len(a) < Len(b) \/ (Len(a) = Len(b) /\ LexLess(a, b))

\* "4294967295"
MaxArrayIndexPlusOne == <<52, 50, 57, 52, 57, 54, 55, 50, 57, 53>>

IsArrayIndex(s) ==
    /\ Len(s) >= 1
    /\ \A i \in 1..Len(s) : IsDigit(s[i])
    /\ (Len(s) = 1 \/ s[1] # 48)
    /\ NumeralLess(s, MaxArrayIndexPlusOne)

RECURSIVE SortNumerals(_)
SortNumerals(S) ==
    IF S = {} THEN <<>>
    ELSE LET m == CHOOSE x \in S : \A y \in S \ {x} : NumeralLess(x, y)
         IN  <<m>> \o SortNumerals(S \ {m})

IsOtherName(s) == ~IsArrayIndex(s)

\* Object.keys(obj) of an object whose own properties were created in the order
\* `names`: array indices first, ascending, then the other names as created
ObjectKeys(names) ==
    SortNumerals({names[i] : i \in {j \in 1..Len(names) : IsArrayIndex(names[j])}})
        \o SelectSeq(names, IsOtherName)

\* groups[name] of the object built by getGroupsByComplexIds
GroupOf(groups, name) == groups.keys[PosIn(groups.names, name)]

\* "1,A" "2,B" "3,A" "4" "5,7" "6,constructor"
IdPool == { <<49, 44, 65>>, <<50, 44, 66>>, <<51, 44, 65>>, <<52>>, <<53, 44, 55>>,
            <<54, 44, 99, 111, 110, 115, 116, 114, 117, 99, 116, 111, 114>> }

RECURSIVE ListsUpTo(_, _)
ListsUpTo(pool, n) ==
    IF n = 0 THEN {<<>>}
    ELSE LET shorter == ListsUpTo(pool, n - 1)
         IN  shorter \cup {Append(s, x) : s \in {t \in shorter : Len(t) = n - 1}, x \in pool}

InitGroups ==
    /\ grpPc = "input"
    /\ grpIds \in ListsUpTo(IdPool, MaxIds)
    /\ grpDefaults = DefaultContract
    /\ grpResult = EmptyGroups
    /\ CidParked /\ SvcParked /\ NavParked /\ MnParked /\ UpdParked /\ DbParked /\ QryParked

GroupIds ==
    /\ grpPc = "input"
    /\ grpPc' = "done"
    /\ grpResult' = getGroupsByComplexIds(grpIds, grpDefaults)
    /\ UNCHANGED <<grpIds, grpDefaults, cidVars, svcVars, navVars, mnVars, updVars, dbVars, qryVars>>

NextGroups == GroupIds

SpecGroups == InitGroups /\ [][NextGroups]_vars

----------------------------------------------------------------------------
(* Claims on identifiers *)

\* The identifier splits as <digits> ',' <name> with every character of the
\* name in the class C
IsCompositeOver(id, C(_)) ==
    \E k \in 1..Len(id) :
        /\ id[k] = 44
        /\ k > 1 /\ k < Len(id)
        /\ \A i \in 1..Len(id) : i < k => IsDigit(id[i])
        /\ \A i \in 1..Len(id) : i > k => C(id[i])

\* What the claim expects of the three parsers for an identifier that is
\* composite exactly when it splits over the class C
ParsedAsClaimed(C(_)) ==
    IF IsCompositeOver(cidId, C)
    THEN /\ cidId = cidKey \o <<44>> \o cidName
         /\ cidPair = <<cidKey, cidName>>
    ELSE /\ cidKey = cidId
         /\ cidName = cidDefaults
         /\ cidPair = <<cidId, cidDefaults>>

\* C5 (as stated): an identifier is composite exactly when it matches
\* ^[0-9]+,[A-Za-z0-9]+$; then key = the part before the comma and name = the
\* part after it; every other identifier is its own key and takes the default
\* name.
C5_StrictPattern == cidPc = "done" => ParsedAsClaimed(StrictNameChar)

\* C5 (amended): an identifier is composite exactly when it matches
\* ^[0-9]+,[А-яA-z0-9]+$ (the name may hold digits, U+0041..U+007A, which is
\* the Latin letters and [ \ ] ^ _ `, and the Cyrillic letters U+0410..U+044F);
\* then key = the part before the comma and name = the part after it; every
\* other identifier is its own key and takes the default name.
C5_SourcePattern == cidPc = "done" => ParsedAsClaimed(ComplexIdNameChar)

\* "1,Я" was parsed as key "1" and name "Я"
C5_Witness ==
    /\ cidPc = "done"
    /\ cidId = <<49, 44, 1071>>
    /\ cidKey = <<49>>
    /\ cidName = <<1071>>

\* The names of the identifiers in the order each is first seen
RECURSIVE FirstSeenNames(_, _)
FirstSeenNames(ids, defaults) ==
    IF ids = <<>> THEN <<>>
    ELSE LET front == FirstSeenNames(SubSeq(ids, 1, Len(ids) - 1), defaults)
             name == StringOf(getNameByComplexId(ids[Len(ids)], defaults))
         IN  IF PosIn(front, name) > 0 THEN front ELSE Append(front, name)

\* The keys of the identifiers named `name`, in the order of the identifiers
RECURSIVE KeysNamed(_, _, _)
KeysNamed(ids, defaults, name) ==
    IF ids = <<>> THEN <<>>
    ELSE LET front == KeysNamed(SubSeq(ids, 1, Len(ids) - 1), defaults, name)
             id == ids[Len(ids)]
         IN  IF StringOf(getNameByComplexId(id, defaults)) = name
             THEN Append(front, getKeyByComplexId(id)) ELSE front

\* C4: getGroupsByComplexIds returns, for every list of identifiers, a mapping
\* in which every identifier contributes exactly one key to the group of its
\* name, keys keep their first-seen order inside a group, and Object.keys
\* enumerates the groups in the order their names were first seen.
C4_PartitionInFirstSeenOrder ==
    grpPc = "done" =>
        /\ ~grpResult.threw
        /\ ObjectKeys(grpResult.names) = FirstSeenNames(grpIds, grpDefaults)
        /\ \A i \in 1..Len(grpResult.names) :
               grpResult.keys[i] = KeysNamed(grpIds, grpDefaults, grpResult.names[i])

----------------------------------------------------------------------------
(* Values handed to the source: a string, null, or an array of strings *)

Str(s) == [s |-> s, a |-> <<>>, tag |-> "str"]
Null == [s |-> <<>>, a |-> <<>>, tag |-> "null"]
Arr(a) == [s |-> <<>>, a |-> a, tag |-> "arr"]

\* Array.prototype.join(',')
RECURSIVE join(_)
join(a) ==
    IF a = <<>> THEN <<>>
    ELSE IF Len(a) = 1 THEN a[1]
    ELSE a[1] \o <<44>> \o join(Tail(a))

\* String(id || ''): null and '' give '', an array gives its elements joined by ','
JsString(v) ==
    CASE v.tag = "null" -> <<>>
      [] v.tag = "str" -> v.s
      [] v.tag = "arr" -> join(v.a)

----------------------------------------------------------------------------
(* The source: argument construction *)

buildBlMethodName(objectName, methodName) ==
    IF indexOf(methodName, BL_OBJECT_SEPARATOR) > -1 THEN methodName
    ELSE StringOf(objectName) \o <<BL_OBJECT_SEPARATOR>> \o methodName

\* meta is a list of <<name, value>> pairs; <<>> stands for no meta (or {})
passDestroy(keys, meta) ==
    IF meta # <<>> THEN [IdO |-> keys, DopPolya |-> meta] ELSE [IdO |-> keys]

\* meta.parentProperty || null, and the like
OrNull(s) == IF s = <<>> THEN Null ELSE Str(s)

passMove(from, to, meta) ==
    [IndexNumber |-> orderProperty,
     HierarchyName |-> OrNull(meta.parentProperty),
     ObjectName |-> meta.objectName,
     ObjectId |-> from,
     DestinationId |-> to,
     Order |-> meta.position,
     ReadMethod |-> buildBlMethodName(meta.objectName, binding.read),
     UpdateMethod |-> buildBlMethodName(meta.objectName, binding.update)]

----------------------------------------------------------------------------
(* The source: remote calls *)

\* what a subscriber of onBeforeProviderCall that rewrites the arguments
\* returns
ObserverArgs == [rewritten |-> TRUE]

\* undefined, and null, where arguments are expected
Undefined == [undefined |-> TRUE]
NoArguments == [isNull |-> TRUE]

\* false, 0, '' and NaN
False == [boolean |-> FALSE]
Zero == [number |-> 0]
EmptyString == [string |-> <<>>]
NaN == [nan |-> TRUE]

\* {}
EmptyObject == [empty |-> TRUE]

\* _notify('onBeforeProviderCall', name, args): what the subscriber returned;
\* undefined without a subscriber or when the subscriber returns nothing
notify(name, args) ==
    CASE observer = "rewrites" -> ObserverArgs
      [] observer = "nulls" -> NoArguments
      [] observer = "zeroes" -> Zero
      [] OTHER -> Undefined

\* buildRecord(data, adapter): a record made of the data
buildRecord(data) == [record |-> data]

\* The adapter is a part the source is given and its code is none of the
\* source's: the source is drawn with an adapter whose serialize returns the
\* arguments it is handed, and with one that returns {serialized: args}
Adapters == {"returning", "wrapping"}

\* _prepareProviderArguments(args): getAdapter().serialize(args), whatever
\* the adapter of the source makes of the arguments
serialize(args) ==
    IF adapter = "wrapping" THEN [serialized |-> args] ELSE args

\* _callProvider(name, args) entered: nothing is done yet.  kind and group
\* record which operation and which object name the call is made for, built
\* the arguments the passing strategy made, local the variable args of
\* _callProvider, args what Provider.call is handed, sent what the transport
\* is handed, trail the steps taken so far, in their order; error is what the
\* caller's promise is rejected with.
entered(kind, group, name, args) ==
    [kind |-> kind, group |-> group, name |-> name, built |-> args,
     local |-> args, trail |-> <<>>, args |-> Undefined, sent |-> Undefined,
     method |-> <<>>, callMethods |-> 0, st |-> "entered", timer |-> "none",
     timeoutLogs |-> 0, errorLogs |-> 0, result |-> "pending", error |-> "none"]

\* const eventResult = this._notify('onBeforeProviderCall', name, args);
\* if (eventResult !== undefined) args = eventResult
notified(call) ==
    LET eventResult == notify(call.name, call.local)
    IN  [call EXCEPT !.trail = Append(@, "notify"),
                     !.local = IF eventResult # Undefined THEN eventResult ELSE @]

\* provider.call(name, this._prepareProviderArguments(args)): the arguments
\* are serialised, then Provider.call is invoked with them; the provider
\* reaches the transport in a later microtask, so the call is "queued"
providerCalled(call) ==
    [call EXCEPT !.trail = @ \o <<"serialize", "call">>,
                 !.args = serialize(call.local),
                 !.st = "queued"]

\* _callProvider with the notification made after Provider.call
callProviderAsBuilt(kind, group, name, args) ==
    notified(providerCalled(entered(kind, group, name, args)))

\* Remote._callProvider(name, args): the notification, then Provider.call
\* with the serialised form of the arguments the subscriber returned, if
\* any, and of those built otherwise
callProvider(kind, group, name, args) ==
    providerCalled(notified(entered(kind, group, name, args)))

\* "2": the key a configured ("strict") passing strategy refuses by throwing
BadKey == <<50>>

\* _$passing.destroy / _$passing.move as configured throws on these keys
passingThrows(keys) == passing = "strict" /\ \E i \in 1..Len(keys) : keys[i] = BadKey

\* the groups whose calls are made: all, or those before the first one whose
\* arguments could not be built
madeBeforeThrow(groups, names) ==
    LET failing == {i \in 1..Len(names) : passingThrows(GroupOf(groups, names[i]))}
    IN  IF failing = {} THEN Len(names)
        ELSE (CHOOSE i \in failing : \A j \in failing : i <= j) - 1

\* A variant of callDestroyWithComplexId that never qualifies the method name
callDestroyUnqualified(ids, name, meta) ==
    callProvider("destroy", name, binding.destroy, passDestroy(ids, meta))

callDestroyWithComplexId(ids, name, meta) ==
    callProvider("destroy", name,
        IF endpoint.contract = name THEN binding.destroy
        ELSE buildBlMethodName(name, binding.destroy),
        passDestroy(ids, meta))

\* The Provider calls of destroy(keys, meta), in the order they are made;
\* threw: getGroupsByComplexIds or the passing strategy threw, and the calls
\* are those made before
destroyCalls(keys, meta) ==
    IF keys.tag # "arr"
    THEN IF passingThrows(<<getKeyByComplexId(JsString(keys))>>)
         THEN [threw |-> TRUE, calls |-> <<>>]
         ELSE [threw |-> FALSE,
               calls |-> <<callDestroyWithComplexId(
                             <<getKeyByComplexId(JsString(keys))>>,
                             getNameByComplexId(JsString(keys), endpoint.contract),
                             meta)>>]
    ELSE LET groups == getGroupsByComplexIds(keys.a, endpoint.contract)
             names == ObjectKeys(groups.names)
         IN  IF groups.threw THEN [threw |-> TRUE, calls |-> <<>>]
             ELSE [threw |-> madeBeforeThrow(groups, names) < Len(names),
                   calls |-> [i \in 1..madeBeforeThrow(groups, names) |->
                       callDestroyWithComplexId(GroupOf(groups, names[i]), names[i], meta)]]

\* A variant of oldMove that calls binding.moveAfter whatever meta.before is
oldMoveAfter(from, to, meta) ==
    LET params == [PorNomer |-> orderProperty,
                   Ierarhiya |-> OrNull(meta.hierField),
                   Obyekt |-> endpoint.moveContract,
                   IdO |-> createComplexId(JsString(from), endpoint.contract),
                   before |-> meta.before,
                   IdODoPosle |-> createComplexId(JsString(to), endpoint.contract)]
    IN  callProvider("oldMove", endpoint.contract,
            endpoint.moveContract \o <<BL_OBJECT_SEPARATOR>> \o binding.moveAfter, params)

\* the deprecation notices logger.info writes: one per oldMove, which move()
\* calls when binding.moveBefore is set
deprecationNotices(kind) == IF kind = "move" /\ binding.moveBefore # <<>> THEN 1 ELSE 0

\* oldMove: one call to <moveContract>.<moveBefore | moveAfter>
oldMove(from, to, meta) ==
    LET moveMethod == IF meta.before THEN binding.moveBefore ELSE binding.moveAfter
        params == [PorNomer |-> orderProperty,
                   Ierarhiya |-> OrNull(meta.hierField),
                   Obyekt |-> endpoint.moveContract,
                   IdO |-> createComplexId(JsString(from), endpoint.contract),
                   before |-> meta.before,
                   IdODoPosle |-> createComplexId(JsString(to), endpoint.contract)]
    IN  callProvider("oldMove", endpoint.contract,
            endpoint.moveContract \o <<BL_OBJECT_SEPARATOR>> \o moveMethod, params)

\* The Provider calls of move(items, target, meta), in the order they are made
moveCalls(items, target, meta) ==
    IF binding.moveBefore # <<>>
    THEN [threw |-> FALSE, calls |-> <<oldMove(items, target, meta)>>]
    ELSE LET to == IF target.tag # "null" THEN Str(getKeyByComplexId(JsString(target)))
                   ELSE target
             groups == getGroupsByComplexIds(items.a, endpoint.contract)
             names == ObjectKeys(groups.names)
         IN  IF groups.threw THEN [threw |-> TRUE, calls |-> <<>>]
             ELSE [threw |-> madeBeforeThrow(groups, names) < Len(names),
                   calls |-> [i \in 1..madeBeforeThrow(groups, names) |->
                       callProvider("move", names[i],
                           buildBlMethodName(endpoint.moveContract, binding.move),
                           passMove(GroupOf(groups, names[i]), to,
                                    [meta EXCEPT !.objectName = names[i]]))]]

\* A variant of PromiseAll that waits for every call to settle and then
\* rejects with the last rejection
PromiseAllSettled(op, cs) ==
    IF op.st # "pending" \/ \E i \in 1..Len(op.calls) : cs[op.calls[i]].result = "pending"
    THEN op
    ELSE IF \E i \in 1..Len(op.calls) : cs[op.calls[i]].result = "rejected"
    THEN [op EXCEPT !.st = "rejected",
                    !.err = op.calls[CHOOSE i \in 1..Len(op.calls) :
                               /\ cs[op.calls[i]].result = "rejected"
                               /\ \A j \in (i + 1)..Len(op.calls) :
                                      cs[op.calls[j]].result # "rejected"]]
    ELSE [op EXCEPT !.st = "resolved"]

\* Promise.all over the results of the calls of one operation (a single call
\* returned as it is behaves the same): rejected as soon as one call is
\* rejected, with that call's error; resolved once all are resolved.  Called
\* after each settlement, so at most one call is newly rejected.
PromiseAll(op, cs) ==
    IF op.st # "pending" THEN op
    ELSE IF \E i \in 1..Len(op.calls) : cs[op.calls[i]].result = "rejected"
    THEN [op EXCEPT !.st = "rejected",
                    !.err = op.calls[CHOOSE i \in 1..Len(op.calls) :
                                        cs[op.calls[i]].result = "rejected"]]
    ELSE IF \A i \in 1..Len(op.calls) : cs[op.calls[i]].result = "resolved"
    THEN [op EXCEPT !.st = "resolved"]
    ELSE op

\* An operation was invoked: its calls are appended to `calls`
Invoke(kind, input, target, meta, made) ==
    LET n == Len(calls)
        idx == [i \in 1..Len(made.calls) |-> n + i]
    IN  /\ Len(ops) < MaxOps
        /\ n + Len(made.calls) <= MaxCalls
        /\ calls' = calls \o made.calls
        /\ ops' = Append(ops,
              [kind |-> kind, input |-> input, target |-> target, meta |-> meta,
               notices |-> deprecationNotices(kind), calls |-> idx,
               err |-> 0, firstRejected |-> 0,
               st |-> IF made.threw THEN "threw"
                      ELSE IF made.calls = <<>> THEN "resolved" ELSE "pending"])
        /\ UNCHANGED <<cfgVars, server, abortCalls, cidVars, grpVars, navVars, mnVars, updVars, dbVars, qryVars>>

NoMeta == <<>>

\* SbisService.destroy(keys, meta)
Destroy(keys) == Invoke("destroy", keys, Null, NoMeta, destroyCalls(keys, NoMeta))

\* SbisService.move(items, target, meta)
Move(items, target, meta) ==
    Invoke("move", items, target, meta, moveCalls(items, target, meta))

----------------------------------------------------------------------------
(* The provider (SbisBusinessLogic) and the transport *)

\* the method name of SbisBusinessLogic.call with the contract always prefixed
methodNameAlwaysQualified(contract, name) ==
    IF indexOf(name, BL_OBJECT_SEPARATOR) > -1 THEN name
    ELSE contract \o <<BL_OBJECT_SEPARATOR>> \o name

\* SbisBusinessLogic.call: the method name handed to the transport; an
\* endpoint.contract that is undefined or '' counts for false
qualifiedMethodName(contract, name) ==
    LET contractIncluded == indexOf(name, BL_OBJECT_SEPARATOR) > -1
    IN  IF ~contractIncluded /\ contract # <<>> /\ contract # NoContract
        THEN contract \o <<BL_OBJECT_SEPARATOR>> \o name
        ELSE name

NoneQueued == \A i \in 1..Len(calls) : calls[i].st # "queued"

\* the values a condition takes for false
Falsy == {Undefined, NoArguments, False, Zero, EmptyString, NaN}

\* args || {}
orEmptyObject(args) == IF args \in Falsy THEN EmptyObject ELSE args

\* SbisBusinessLogic.call, the callback of getDefaultTransport(...).then: the
\* method name is qualified, Transport.callMethod is invoked with args || {}
\* and, with a timeout budget, getTimedOutResponse arms its timer.
\* Microtasks run in the order they were queued.
ProviderCall(i) ==
    /\ calls[i].st = "queued"
    /\ \A j \in 1..(i - 1) : calls[j].st # "queued"
    /\ LET methodName == qualifiedMethodName(endpoint.contract, calls[i].name)
           useTimeout == callTimeout # 0
       IN  calls' = [calls EXCEPT ![i].method = methodName,
                                  ![i].sent = orEmptyObject(calls[i].args),
                                  ![i].callMethods = @ + 1,
                                  ![i].st = "pending",
                                  ![i].timer = IF useTimeout THEN "armed" ELSE "none"]
    /\ UNCHANGED <<cfgVars, ops, server, abortCalls, cidVars, grpVars, navVars, mnVars, updVars, dbVars, qryVars>>

\* A variant of unallocate() that leaves the timer running
unallocateKeeping(timer) == timer

\* unallocate(): clears the timer if it is still set
unallocate(timer) == IF timer = "armed" THEN "cleared" ELSE timer

\* A variant of TimeoutExpires that also aborts the transport call
TimeoutExpiresAborting(i) ==
    /\ NoneQueued
    /\ calls[i].timer = "armed"
    /\ calls' = [calls EXCEPT ![i].timeoutLogs = @ + 1, ![i].timer = "fired",
                              ![i].st = "aborted"]
    /\ abortCalls' = abortCalls + 1
    /\ UNCHANGED <<cfgVars, ops, server, cidVars, grpVars, navVars, mnVars, updVars, dbVars, qryVars>>

\* getTimedOutResponse, the setTimeout callback: throwError() logs the timeout
\* message, unallocate() forgets the timer.  Nothing else happens: the promise
\* given to the caller and the transport call are left as they are.
TimeoutExpires(i) ==
    /\ NoneQueued
    /\ calls[i].timer = "armed"
    /\ calls' = [calls EXCEPT ![i].timeoutLogs = @ + 1, ![i].timer = "fired"]
    /\ UNCHANGED <<cfgVars, ops, server, abortCalls, cidVars, grpVars, navVars, mnVars, updVars, dbVars, qryVars>>

\* the errback _callProvider adds with the debug flag, with the error dropped
debugErrbackSwallowing(error) == "none"

\* the errback _callProvider adds with the debug flag: it logs and returns the
\* error
debugErrback(error) == error

\* the error the promise returned by _callProvider is rejected with
rejectionOf(error) == IF debug THEN debugErrback(error) ELSE error

\* History: the call of the operation that the transport rejected first
NoteRejection(op, i, how) ==
    IF how = "rejected" /\ op.firstRejected = 0 /\ \E k \in 1..Len(op.calls) : op.calls[k] = i
    THEN [op EXCEPT !.firstRejected = i] ELSE op

\* create, read, query of Remote and Rpc.call chain the result of the
\* provider through _loadAdditionalDependencies(): the callback added to the
\* promise of _callProvider returns the loader's Deferred, and the result is
\* prepared in its callback
AwaitsDependencies(op) == op.kind \in {"create", "read", "query", "call"}

\* the promise an operation gave its caller, after the transport settled a
\* call: a rejection passes the callback by and rejects it; a result
\* resolves it, unless the callback first waits for the loader
settled(op, cs) ==
    IF AwaitsDependencies(op)
          /\ \A n \in 1..Len(op.calls) : cs[op.calls[n]].result # "rejected"
    THEN op
    ELSE PromiseAll(op, cs)

\* The transport call settles with `how` ("resolved" or "rejected").
\* getTimedOutResponse (lines 87-93 for a Promise, 97-103 for a Deferred):
\* unallocate(), then the caller's promise settles the same way.  Without a
\* timeout budget the caller holds the transport's promise itself.
OriginSettles(i, how) ==
    /\ NoneQueued
    /\ calls[i].st = "pending"
    /\ LET cs == [calls EXCEPT ![i].st = how,
                               ![i].timer = unallocate(@),
                               ![i].result = how,
                               ![i].errorLogs = IF how = "rejected" /\ debug THEN @ + 1 ELSE @,
                               ![i].error = IF how = "rejected" THEN rejectionOf("transport")
                                            ELSE "none"]
       IN  /\ calls' = cs
           /\ ops' = [k \in 1..Len(ops) |-> settled(NoteRejection(ops[k], i, how), cs)]
    /\ server' = IF how = "resolved"
                 THEN server \cup {[method |-> calls[i].method, args |-> calls[i].sent]}
                 ELSE server
    /\ UNCHANGED <<cfgVars, abortCalls, cidVars, grpVars, navVars, mnVars, updVars, dbVars, qryVars>>

OriginResolves(i) == OriginSettles(i, "resolved")

OriginRejects(i) == OriginSettles(i, "rejected")

----------------------------------------------------------------------------
(* The source and its provider at work *)

\* "Del", "P.Del"
DestroyBindings == { <<68, 101, 108>>, <<80, 46, 68, 101, 108>> }

\* binding.moveBefore: unset, or "MvB"
MoveBeforeBindings == { <<>>, <<77, 118, 66>> }

\* "1,A"; "4"; ["1,A","2,B"]; ["4","1,A"]; ["1,A","5,7"];
\* ["6,constructor"]; []
DestroyInputs == {
    Str(<<49, 44, 65>>),
    Str(<<52>>),
    Arr(<< <<49, 44, 65>>, <<50, 44, 66>> >>),
    Arr(<< <<52>>, <<49, 44, 65>> >>),
    Arr(<< <<49, 44, 65>>, <<53, 44, 55>> >>),
    Arr(<< <<54, 44, 99, 111, 110, 115, 116, 114, 117, 99, 116, 111, 114>> >>),
    Arr(<<>>) }

\* ["1,A"]; ["1,A","2,B","3,A"]; ["6,constructor"]
MoveItems == {
    Arr(<< <<49, 44, 65>> >>),
    Arr(<< <<49, 44, 65>>, <<50, 44, 66>>, <<51, 44, 65>> >>),
    Arr(<< <<54, 44, 99, 111, 110, 115, 116, 114, 117, 99, 116, 111, 114>> >>) }

\* "9,A"; null
MoveTargets == { Str(<<57, 44, 65>>), Null }

\* {position: 'after'} ("after" is <<97,...>>) and {before: true}
MoveMetas == {
    [objectName |-> <<>>, parentProperty |-> <<>>, position |-> <<97, 102, 116, 101, 114>>,
     hierField |-> <<>>, before |-> FALSE],
    [objectName |-> <<>>, parentProperty |-> <<>>, position |-> <<>>,
     hierField |-> <<>>, before |-> TRUE] }

\* the moves made: a null target, and {before: true}, with the single item
\* only, and not both
MoveInputs ==
    { m \in [meta : MoveMetas, items : MoveItems, target : MoveTargets] :
        /\ m.target = Null => m.items = Arr(<< <<49, 44, 65>> >>) /\ ~m.meta.before
        /\ m.meta.before => m.items = Arr(<< <<49, 44, 65>> >>) }

\* 'IndexNumber'
IndexNumber == <<73, 110, 100, 101, 120, 78, 117, 109, 98, 101, 114>>

\* A variant of the constructor that sets moveContract whatever was given
constructWithIndexNumber(endpointGiven) ==
    [endpointGiven EXCEPT !.moveContract = IndexNumber]

\* the constructor of SbisService: _$endpoint after it
construct(endpointGiven) ==
    IF endpointGiven.moveContract = <<>>
    THEN [endpointGiven EXCEPT !.moveContract = IndexNumber]
    ELSE endpointGiven

\* endpoint.moveContract as given: unset, or 'Mv'
GivenMoveContracts == { <<>>, <<77, 118>> }

\* endpoint.contract as given: 'Dflt', or none
GivenContracts == { DefaultContract, NoContract }

\* the configurations drawn: every binding with nothing else set, and with
\* the default bindings a timeout, the debug flag, a subscriber, a configured
\* passing strategy, an adapter that wraps, or an endpoint without contract
Configured ==
    \/ /\ ~debug /\ observer = "none" /\ passing = "default" /\ callTimeout = 0
       /\ adapter = "returning"
       /\ givenEndpoint.contract = DefaultContract
       /\ givenEndpoint.moveContract = <<>> /\ binding.moveBefore = <<>>
    \/ /\ ~debug /\ observer = "none" /\ passing = "default" /\ callTimeout = 0
       /\ adapter = "returning"
       /\ givenEndpoint.contract = DefaultContract
       /\ binding.destroy = <<68, 101, 108>>
    \/ /\ binding.destroy = <<68, 101, 108>> /\ binding.moveBefore = <<>>
       /\ givenEndpoint.moveContract = <<>>
       /\ \/ /\ observer = "none" /\ passing = "default" /\ adapter = "returning"
             /\ givenEndpoint.contract = DefaultContract
          \/ /\ ~debug /\ observer # "none" /\ passing = "default" /\ callTimeout = 0
             /\ adapter = "returning"
             /\ givenEndpoint.contract = DefaultContract
          \/ /\ ~debug /\ observer = "none" /\ passing = "strict" /\ callTimeout = 0
             /\ adapter = "returning"
             /\ givenEndpoint.contract = DefaultContract
          \/ /\ ~debug /\ observer = "none" /\ passing = "default"
             /\ callTimeout = 0 /\ adapter = "wrapping"
             /\ givenEndpoint.contract = DefaultContract
          \/ /\ ~debug /\ observer = "none" /\ passing = "default"
             /\ callTimeout = 0 /\ adapter = "returning"
             /\ givenEndpoint.contract = NoContract

Init ==
    /\ givenEndpoint \in [contract : GivenContracts, moveContract : GivenMoveContracts]
    /\ endpoint = construct(givenEndpoint)
    /\ \E d \in DestroyBindings, mb \in MoveBeforeBindings :
          binding = [destroy |-> d,
                     move |-> <<77, 111, 118, 101>>,
                     read |-> <<82, 101, 97, 100>>,
                     update |-> <<85, 112, 100>>,
                     create |-> <<1057, 1086, 1079, 1076, 1072, 1090, 1100>>,
                     query |-> <<1057, 1087, 1080, 1089, 1086, 1082>>,
                     copy |-> <<1050, 1086, 1087, 1080, 1088, 1086, 1074, 1072, 1090, 1100>>,
                     merge |-> <<1054, 1073, 1098, 1077, 1076, 1080, 1085, 1080, 1090, 1100>>,
                     format |-> <<>>,
                     moveBefore |-> mb,
                     moveAfter |-> IF mb = <<>> THEN <<>> ELSE <<77, 118, 65>>]
    /\ orderProperty = <<79, 114, 100>>
    /\ callTimeout \in {0, 100}
    /\ itsPromise \in BOOLEAN
    /\ (callTimeout = 0 => itsPromise)
    /\ debug \in BOOLEAN
    /\ observer \in {"none", "silent", "rewrites", "nulls", "zeroes"}
    /\ passing \in {"default", "strict"}
    /\ adapter \in Adapters
    /\ Configured
    /\ calls = <<>> /\ ops = <<>> /\ server = {} /\ abortCalls = 0
    /\ CidParked /\ GrpParked /\ NavParked /\ MnParked /\ UpdParked /\ DbParked /\ QryParked


----------------------------------------------------------------------------
(* Claims on the timeout of the provider *)

\* C1: with a positive callTimeout, once the timer has fired before the
\* transport settled, a timeout message has been logged and the promise given
\* to the caller is rejected with a timeout failure.
C1_TimeoutRejectsCaller ==
    \A i \in 1..Len(calls) :
        calls[i].timer = "fired" =>
            /\ calls[i].timeoutLogs >= 1
            /\ calls[i].result = "rejected"
            /\ calls[i].error = "timeout"

\* C2: the transport's abort() is never invoked; after the timer has fired the
\* transport call is still in flight, and it can still resolve or reject.
C2_NeverAborted ==
    /\ abortCalls = 0
    /\ \A i \in 1..Len(calls) :
          /\ calls[i].st \in {"queued", "pending", "resolved", "rejected"}
          /\ (calls[i].timer = "fired" /\ calls[i].result = "pending") =>
                /\ calls[i].st = "pending"
                /\ NoneQueued => ENABLED OriginResolves(i) /\ ENABLED OriginRejects(i)

\* One call was resolved and another rejected by the transport after their
\* timers had fired
C2_Witness ==
    \E i, j \in 1..Len(calls) :
        /\ calls[i].timer = "fired" /\ calls[i].st = "resolved"
        /\ calls[j].timer = "fired" /\ calls[j].st = "rejected"

\* The transport call i has settled and its timer had not fired by then
SettledBeforeTimer(i) ==
    /\ calls[i].st \in {"resolved", "rejected"}
    /\ calls[i].timer \notin {"none", "fired"}

\* C29: with a timeout budget, a transport call that settles before the timer
\* fires has its timer cleared, no timeout message is ever logged for it (a
\* cleared timer stays cleared and the count of messages stays 0), and the
\* caller receives the transport's own result or error; no call has more than
\* one timeout message logged.
C29_SettledFirstClearsTimer ==
    /\ [](\A i \in 1..Len(calls) :
            /\ calls[i].timeoutLogs <= 1
            /\ SettledBeforeTimer(i) =>
                  /\ calls[i].timer = "cleared"
                  /\ calls[i].timeoutLogs = 0
                  /\ calls[i].result = calls[i].st
                  /\ calls[i].error = IF calls[i].st = "rejected" THEN "transport" ELSE "none")
    /\ [][\A i \in 1..Len(calls) :
            /\ (calls[i].st = "pending" /\ calls[i].timer = "armed"
                    /\ calls'[i].st \in {"resolved", "rejected"}) => calls'[i].timer = "cleared"
            /\ calls[i].timer = "cleared" =>
                  /\ calls'[i].timer = "cleared"
                  /\ calls'[i].timeoutLogs = 0
                  /\ calls'[i].result = calls[i].result
                  /\ calls'[i].error = calls[i].error]_vars

\* With a timeout budget, one call was rejected by the transport while its
\* timer was running, which was cleared, and another call's timer fired
C29_Witness ==
    \E j, k \in 1..Len(calls) :
        /\ calls[j].timer = "cleared" /\ calls[j].result = "rejected"
        /\ calls[j].error = "transport" /\ calls[j].timeoutLogs = 0
        /\ calls[k].timer = "fired" /\ calls[k].timeoutLogs = 1

----------------------------------------------------------------------------
(* Claims on multi-group destroy and move *)

\* The object names an operation is expected to make one call for
ExpectedGroups(op) ==
    IF op.input.tag = "arr"
    THEN FirstSeenNames(op.input.a, endpoint.contract)
    ELSE <<getNameByComplexId(JsString(op.input), endpoint.contract)>>

\* move() with binding.moveBefore set takes the legacy path, which forms no
\* groups and makes one call
IsLegacyMove(op) == op.kind = "move" /\ binding.moveBefore # <<>>

\* C3: destroy and (grouping) move make the call of every group when they are
\* invoked, before any result; the aggregate is rejected exactly when a call
\* has been rejected, with the first rejection; the other calls are neither
\* aborted nor compensated, and what they did on the server remains.
C3_AllDispatchedFirstRejectionNoRollback ==
    /\ abortCalls = 0
    /\ \A k \in 1..Len(ops) :
          LET op == ops[k]
              cs == {op.calls[n] : n \in 1..Len(op.calls)}
          IN  /\ IsLegacyMove(op) => Len(op.calls) = 1
              /\ (op.kind \in {"destroy", "move"} /\ op.st # "threw" /\ ~IsLegacyMove(op)) =>
                    /\ Len(op.calls) = Len(ExpectedGroups(op))
                    /\ {calls[c].group : c \in cs}
                          = {ExpectedGroups(op)[n] : n \in 1..Len(op.calls)}
              /\ op.st = "pending" => \A c \in cs : calls[c].result # "rejected"
              /\ op.st = "resolved" => \A c \in cs : calls[c].result = "resolved"
              /\ op.st = "rejected" =>
                    /\ op.firstRejected \in cs
                    /\ op.err = op.firstRejected
              /\ \A c \in cs :
                    calls[c].st \in {"resolved", "rejected"} =>
                        \A d \in cs : calls[d].st # "queued"
              /\ \A c \in cs :
                    calls[c].st = "resolved" =>
                        [method |-> calls[c].method, args |-> calls[c].sent] \in server
    /\ \A c \in 1..Len(calls) :
          \E k \in 1..Len(ops) : \E n \in 1..Len(ops[k].calls) : ops[k].calls[n] = c

\* destroy(["1,A","2,B"]): B's call was rejected, the aggregate is rejected,
\* and A's call was resolved with its deletion carried out on the server
C3_Witness ==
    \E k \in 1..Len(ops) :
        /\ ops[k].kind = "destroy"
        /\ ops[k].st = "rejected"
        /\ Len(ops[k].calls) = 2
        /\ LET a == ops[k].calls[1]
               b == ops[k].calls[2]
           IN  /\ calls[a].group = <<65>>
               /\ calls[b].group = <<66>>
               /\ calls[b].st = "rejected"
               /\ calls[a].st = "resolved"
               /\ [method |-> calls[a].method, args |-> calls[a].sent] \in server
               /\ ops[k].err = b

\* the contract of a qualified method name: what precedes the separator
ContractOf(method) == SubSeq(method, 1, indexOf(method, 46))

\* C6 (as stated): the contract that receives the destroy call of a group is
\* the group's object name, for every binding.destroy.
C6_GroupNameIsContract ==
    \A i \in 1..Len(calls) :
        (calls[i].kind = "destroy" /\ calls[i].st # "queued") =>
            ContractOf(calls[i].method) = calls[i].group

\* C6 (amended): the destroy call of a group goes to
\* <group's object name>.<binding.destroy> when binding.destroy holds no
\* namespace separator, but for the group named by the endpoint's own
\* contract when the endpoint has none: that call goes to the bare
\* binding.destroy, which names no contract.  A binding.destroy that holds a
\* separator is the method of every group's call, as it is.
C6_GroupNameIsContractUnlessBound ==
    \A i \in 1..Len(calls) :
        (calls[i].kind = "destroy" /\ calls[i].st # "queued") =>
            IF \E n \in 1..Len(binding.destroy) : binding.destroy[n] = 46
            THEN calls[i].method = binding.destroy
            ELSE IF calls[i].group = endpoint.contract /\ endpoint.contract \in {NoContract, <<>>}
            THEN calls[i].method = binding.destroy
            ELSE /\ calls[i].method = calls[i].group \o <<46>> \o binding.destroy
                 /\ ContractOf(calls[i].method) = calls[i].group

\* Two calls of one destroy reached the transport as "A.Del" and "Dflt.Del",
\* and the server carried both out
C6_Witness ==
    \E i, j \in 1..Len(calls) :
        /\ calls[i].kind = "destroy" /\ calls[j].kind = "destroy"
        /\ calls[i].st = "resolved" /\ calls[j].st = "resolved"
        /\ calls[i].group = <<65>>
        /\ calls[i].method = <<65, 46, 68, 101, 108>>
        /\ calls[j].group = DefaultContract
        /\ calls[j].method = DefaultContract \o <<46, 68, 101, 108>>

\* C15: move without legacy binding makes exactly one call per distinct
\* object name of the moved items, all to <moveContract>.<binding.move>; the
\* call of group G carries ObjectName = G, ObjectId = the plain keys of G in
\* first-seen order, DestinationId = the plain key of the target, and
\* ReadMethod / UpdateMethod qualified with G.
C15_OneMoveCallPerObjectName ==
    \A k \in 1..Len(ops) :
        (ops[k].kind = "move" /\ ~IsLegacyMove(ops[k])) =>
            LET op == ops[k]
                names == ExpectedGroups(op)
                made == {op.calls[n] : n \in 1..Len(op.calls)}
                target == op.target
            IN  /\ Len(op.calls) = Len(names)
                /\ \A n \in 1..Len(names) :
                      \E c \in made :
                        /\ calls[c].name = endpoint.moveContract \o <<46>> \o binding.move
                        /\ calls[c].st # "queued" => calls[c].method = calls[c].name
                        /\ calls[c].built.ObjectName = names[n]
                        /\ calls[c].built.ObjectId
                              = KeysNamed(op.input.a, endpoint.contract, names[n])
                        /\ calls[c].built.DestinationId
                              = (IF target.tag = "null" THEN Null
                                 ELSE Str(getKeyByComplexId(target.s)))
                        /\ calls[c].built.ReadMethod = names[n] \o <<46>> \o binding.read
                        /\ calls[c].built.UpdateMethod = names[n] \o <<46>> \o binding.update

\* the [key, objectName] pair of an identifier, the endpoint's contract being
\* the default object name
PairOf(id) ==
    << getKeyByComplexId(JsString(id)), getNameByComplexId(JsString(id), endpoint.contract) >>

\* C26: with binding.moveBefore configured, move logs a deprecation notice
\* and makes one call, without grouping, to '<moveContract>.<moveBefore>'
\* when meta.before is truthy and to '<moveContract>.<moveAfter>' otherwise,
\* with the moved id and the target id each as a [key, objectName] pair.
C26_LegacyMove ==
    \A k \in 1..Len(ops) :
        IsLegacyMove(ops[k]) =>
            /\ ops[k].notices = 1
            /\ ops[k].st # "threw"
            /\ Len(ops[k].calls) = 1
            /\ LET call == calls[ops[k].calls[1]]
                   method == IF ops[k].meta.before THEN binding.moveBefore
                             ELSE binding.moveAfter
               IN  /\ call.name = endpoint.moveContract \o <<46>> \o method
                   /\ call.built.IdO = PairOf(ops[k].input)
                   /\ call.built.IdODoPosle = PairOf(ops[k].target)
                   /\ call.built.before = ops[k].meta.before

\* move(['1,A'], '9,A', {before: true}) with moveBefore 'MvB' was carried
\* out as 'IndexNumber.MvB' with ['1', 'A'] and ['9', 'A']
C26_Witness ==
    \E k \in 1..Len(ops) :
        /\ IsLegacyMove(ops[k])
        /\ ops[k].meta.before
        /\ ops[k].notices = 1
        /\ ops[k].st = "resolved"
        /\ LET call == calls[ops[k].calls[1]]
           IN  /\ call.name = endpoint.moveContract \o <<46, 77, 118, 66>>
               /\ call.built.IdO = << <<49>>, <<65>> >>
               /\ call.built.IdODoPosle = << <<57>>, <<65>> >>

\* C27: no operation changes the binding, the endpoint (moveContract
\* included) or the passing strategies of the source; moveContract is
\* 'IndexNumber' when the constructor was given none, and what it was given
\* otherwise.
C27_ConfigurationFixed ==
    /\ [](endpoint.contract = givenEndpoint.contract)
    /\ [](endpoint.moveContract =
             IF givenEndpoint.moveContract = <<>> THEN IndexNumber ELSE givenEndpoint.moveContract)
    /\ [][binding' = binding /\ endpoint' = endpoint /\ passing' = passing]_vars

\* a source given the moveContract 'Mv' has carried out a move as 'Mv.Move',
\* and its endpoint still has 'Mv'
C27_Witness ==
    /\ givenEndpoint.moveContract = <<77, 118>>
    /\ endpoint.moveContract = <<77, 118>>
    /\ \E k \in 1..Len(ops) :
          /\ ops[k].kind = "move" /\ ops[k].st = "resolved"
          /\ Len(ops[k].calls) > 0
          /\ calls[ops[k].calls[1]].name = <<77, 118, 46, 77, 111, 118, 101>>

----------------------------------------------------------------------------
(* Claims on the call of the provider *)

\* C16: an operation whose argument construction fails throws before any of
\* its remote calls is dispatched, so the transport is never called for it.
C16_NoCallWhenArgumentsFail ==
    \A k \in 1..Len(ops) :
        ops[k].st = "threw" =>
            \A n \in 1..Len(ops[k].calls) : calls[ops[k].calls[n]].callMethods = 0

\* C17: a call the transport rejected rejects the caller's promise with the
\* transport's error, with the debug flag on or off and with or without a
\* timeout budget; callMethod is invoked once per provider call, never again.
C17_TransportErrorUnchangedNoRetry ==
    /\ \A i \in 1..Len(calls) :
          /\ calls[i].callMethods = (IF calls[i].st = "queued" THEN 0 ELSE 1)
          /\ calls[i].st = "rejected" =>
                calls[i].result = "rejected" /\ calls[i].error = "transport"
          /\ calls[i].st = "resolved" =>
                calls[i].result = "resolved" /\ calls[i].error = "none"
    /\ \A k \in 1..Len(ops) :
          ops[k].st = "rejected" =>
              /\ \E n \in 1..Len(ops[k].calls) : ops[k].calls[n] = ops[k].err
              /\ calls[ops[k].err].st = "rejected"
              /\ calls[ops[k].err].error = "transport"

\* with the debug flag and a timeout budget, a call was rejected by the
\* transport after its timer had fired: logged, and the operation rejected
C17_Witness ==
    /\ debug /\ callTimeout > 0
    /\ \E k \in 1..Len(ops) :
          /\ ops[k].st = "rejected"
          /\ calls[ops[k].err].timer = "fired"
          /\ calls[ops[k].err].errorLogs = 1
          /\ calls[ops[k].err].callMethods = 1
          /\ calls[ops[k].err].error = "transport"

\* what the subscriber of the configuration returns: new arguments, null, 0,
\* or undefined
Returned ==
    IF observer = "rewrites" THEN ObserverArgs
    ELSE IF observer = "nulls" THEN NoArguments
    ELSE IF observer = "zeroes" THEN Zero
    ELSE Undefined

\* C18 as stated: the provider receives, as they are, what the subscriber
\* returned when that is not undefined and the built arguments otherwise.
C18_ProviderReceivesChosen ==
    \A i \in 1..Len(calls) :
        calls[i].args = (IF Returned # Undefined THEN Returned ELSE calls[i].built)

\* C18: for every operation the notification comes after the arguments are
\* built and before Provider.call, once per remote call; the provider
\* receives what the adapter's serialize made of the subscriber's result when
\* that is not undefined, and of the built arguments otherwise.
C18_BeforeCallNotification ==
    \A i \in 1..Len(calls) :
        LET chosen == IF Returned # Undefined THEN Returned ELSE calls[i].built
        IN  /\ calls[i].trail = <<"notify", "serialize", "call">>
            /\ calls[i].args = serialize(chosen)

\* a subscriber rewrote the arguments of each call of a destroy, and the
\* service carried one out with them
C18_Witness ==
    /\ observer = "rewrites"
    /\ \E i, j \in 1..Len(calls) :
          /\ i # j
          /\ calls[i].kind = "destroy" /\ calls[j].kind = "destroy"
          /\ calls[i].built # ObserverArgs
          /\ calls[i].args = serialize(ObserverArgs) /\ calls[j].args = serialize(ObserverArgs)
          /\ calls[i].st = "resolved"
          /\ [method |-> calls[i].method, args |-> ObserverArgs] \in server

----------------------------------------------------------------------------
(* Queries: offset, limit, metadata, filter expression and unions.         *)
(* A filter expression is the list of its key/value pairs in key order; a  *)
(* key is a string, a value is undefined, null, a plain value or a primary *)
(* key.  The limit is undefined, null or a number.                         *)

JsUndefined == [tag |-> "undefined", v |-> 0]
JsNull == [tag |-> "null", v |-> 0]
Num(n) == [tag |-> "num", v |-> n]
Val(n) == [tag |-> "val", v |-> n]
PrimaryKey(n) == [tag |-> "pk", v |-> n]

\* meta without navigationType ("" stands for an absent, falsy value) and
\* without a property of its own; a meta with hasOwnMore has the one own
\* property named moreName, of value more
EmptyMeta == [navigationType |-> "", moreName |-> "hasMore", hasOwnMore |-> FALSE,
              more |-> FALSE]

\* meta.hasOwnProperty(name)
hasOwnProperty(meta, name) == meta.hasOwnMore /\ meta.moreName = name

Query(offset, limit, meta, where, union) ==
    [limit |-> limit, meta |-> meta, offset |-> offset, where |-> where, union |-> union]

RECURSIVE eachQuery(_)
RECURSIVE eachUnion(_, _)
\* the query, then each unioned query with its own unions, in order
eachQuery(query) == <<query>> \o eachUnion(query.union, 1)

eachUnion(union, i) ==
    IF i > Len(union) THEN <<>>
    ELSE eachQuery(union[i]) \o eachUnion(union, i + 1)

\* The pairs of a filter expression in the order playExpression hands them to
\* its callback.
playExpression(where) ==
    [i \in 1..Len(where) |-> [expr |-> where[i].key, value |-> where[i].value]]

\* /(.+)([<>]=?|~)$/ on a key without line terminators: the greedy field takes
\* all but a final '<', '>' or '~'; failing that, all but a final '<=' or '>='.
EXPRESSION_TEMPLATE(expr) ==
    LET n == Len(expr)
    IN  IF n >= 2 /\ expr[n] \in {60, 62, 126}
        THEN [ok |-> TRUE, field |-> SubSeq(expr, 1, n - 1), operand |-> <<expr[n]>>]
        ELSE IF n >= 3 /\ expr[n] = 61 /\ expr[n - 1] \in {60, 62}
        THEN [ok |-> TRUE, field |-> SubSeq(expr, 1, n - 2),
              operand |-> SubSeq(expr, n - 1, n)]
        ELSE [ok |-> FALSE, field |-> <<>>, operand |-> <<>>]

\* object[name] = value on an object kept as its pairs in key order
setProperty(pairs, name, value) ==
    IF \E i \in 1..Len(pairs) : pairs[i].key = name
    THEN [i \in 1..Len(pairs) |->
            IF pairs[i].key = name THEN [key |-> name, value |-> value] ELSE pairs[i]]
    ELSE Append(pairs, [key |-> name, value |-> value])

\* cursor = {position: null, direction: null}; a null direction is ""
NewCursor == [position |-> [isNull |-> TRUE, fields |-> <<>>], direction |-> ""]

\* the direction an operand gives to a cursor that has none yet
directionOf(operand) ==
    IF operand = <<126>> THEN "bothways"
    ELSE IF operand \in {<<60>>, <<60, 61>>} THEN "backward"
    ELSE ""

\* applyPairToCursor without the test on undefined
applyDefinedOrNot(expr, value, cursor) ==
    LET parts == EXPRESSION_TEMPLATE(expr)
    IN  IF ~parts.ok THEN [matched |-> FALSE, cursor |-> cursor]
        ELSE [matched |-> TRUE,
              cursor |-> [position |->
                             IF value.tag # "null"
                             THEN [isNull |-> FALSE,
                                   fields |-> setProperty(cursor.position.fields,
                                                          parts.field, value)]
                             ELSE cursor.position,
                          direction |->
                             IF cursor.direction = ""
                             THEN directionOf(parts.operand)
                             ELSE cursor.direction]]

applyPairToCursor(expr, value, cursor) ==
    IF value.tag = "undefined" THEN [matched |-> FALSE, cursor |-> cursor]
    ELSE LET parts == EXPRESSION_TEMPLATE(expr)
         IN  IF ~parts.ok THEN [matched |-> FALSE, cursor |-> cursor]
             ELSE [matched |-> TRUE,
                   cursor |-> [position |->
                                  IF value.tag # "null"
                                  THEN [isNull |-> FALSE,
                                        fields |-> setProperty(cursor.position.fields,
                                                               parts.field, value)]
                                  ELSE cursor.position,
                               direction |->
                                  IF cursor.direction = ""
                                  THEN directionOf(parts.operand)
                                  ELSE cursor.direction]]

RECURSIVE playCursor(_, _, _)
\* the callback of getNavigationParams on each pair: a pair applied to the
\* cursor is deleted from the filter
playCursor(pairs, i, acc) ==
    IF i > Len(pairs) THEN acc
    ELSE LET r == applyPairToCursor(pairs[i].expr, pairs[i].value, acc.cursor)
         IN  playCursor(pairs, i + 1,
                        [cursor |-> r.cursor,
                         where |-> IF r.matched THEN acc.where
                                   ELSE Append(acc.where, [key |-> pairs[i].expr,
                                                           value |-> pairs[i].value])])

\* params = null
NoParams == [null |-> TRUE]

\* meta.navigationType || options.navigationType, read from the options alone
navigationTypeOfOptions(meta, options) == options.navigationType

navigationTypeOf(meta, options) ==
    IF meta.navigationType # "" THEN meta.navigationType ELSE options.navigationType

\* the has-more flag read as meta[moreProp] || offset >= 0
hasMoreUnlessFalsy(meta, options, offset) ==
    (hasOwnProperty(meta, options.hasMoreProperty) /\ meta.more) \/ offset >= 0

\* more = meta.hasOwnProperty(moreProp) ? meta[moreProp] : offset >= 0
hasMoreOf(meta, options, offset) ==
    IF hasOwnProperty(meta, options.hasMoreProperty) THEN meta.more ELSE offset >= 0

\* the payload of offset mode with the offset left out
offsetParamsFromStart(offset, limit, more) ==
    [Offset |-> 0, Limit |-> limit, HasMore |-> more]

\* the page index counted from one
pageParamsFromOne(offset, limit, more) ==
    [Stranitsa |-> IF limit.tag = "num" /\ limit.v > 0 THEN (offset \div limit.v) + 1 ELSE 1,
     RazmerStranitsy |-> limit,
     EstEsche |-> more]

\* {Страница, РазмерСтраницы, ЕстьЕще}
pageParams(offset, limit, more) ==
    [Stranitsa |-> IF limit.tag = "num" /\ limit.v > 0 THEN offset \div limit.v ELSE 0,
     RazmerStranitsy |-> limit,
     EstEsche |-> more]

positionParams(limit, more, cursor) ==
    [HasMore |-> more,
     Limit |-> limit,
     Direction |-> IF cursor.direction # "" THEN cursor.direction ELSE "forward",
     Position |-> cursor.position]

offsetParams(offset, limit, more) ==
    [Offset |-> offset, Limit |-> limit, HasMore |-> more]

\* A variant of withoutLimit that takes null for a limit
withoutLimitIfUndefined(limit) == limit.tag = "undefined"

\* withoutLimit: limit === undefined || limit === null
withoutLimitOf(limit) == limit.tag \in {"undefined", "null"}

\* the callback of getNavigationParams on one sub-query: its params and its
\* filter afterwards
subQueryNavigation(subQuery, options) ==
    LET offset == subQuery.offset
        limit == subQuery.limit
        meta == subQuery.meta
        more == hasMoreOf(meta, options, offset)
        withoutOffset == offset = 0
        withoutLimit == withoutLimitOf(limit)
        type == navigationTypeOf(meta, options)
        same == [params |-> NoParams, where |-> subQuery.where]
    IN  IF type = "Page"
        THEN IF ~withoutOffset \/ ~withoutLimit
             THEN [same EXCEPT !.params = pageParams(offset, limit, more)]
             ELSE same
        ELSE IF type = "Position"
        THEN IF ~withoutLimit
             THEN LET played == playCursor(playExpression(subQuery.where), 1,
                                           [cursor |-> NewCursor, where |-> <<>>])
                  IN  [params |-> positionParams(limit, more, played.cursor),
                       where |-> played.where]
             ELSE same
        ELSE IF ~withoutOffset \/ ~withoutLimit
             THEN [same EXCEPT !.params = offsetParams(offset, limit, more)]
             ELSE same

getNavigationParams(query, options) ==
    LET subs == eachQuery(query)
    IN  [i \in 1..Len(subs) |-> subQueryNavigation(subs[i], options)]

RECURSIVE objectAssign(_, _, _)
\* {...memo, ...item}
objectAssign(memo, item, i) ==
    IF i > Len(item) THEN memo
    ELSE objectAssign(setProperty(memo, item[i].key, item[i].value), item, i + 1)

\* expressionToObject on a flat expression
expressionToObject(where) ==
    LET pairs == playExpression(where)
    IN  objectAssign(<<>>, [i \in 1..Len(pairs) |->
                              [key |-> pairs[i].expr, value |-> pairs[i].value]], 1)

RECURSIVE mergeFrom(_, _, _)
mergeFrom(summaryFilter, i, memo) ==
    IF i > Len(summaryFilter) THEN memo
    ELSE mergeFrom(summaryFilter, i + 1, objectAssign(memo, summaryFilter[i], 1))

mergeFilterParams(summaryFilter) == mergeFrom(summaryFilter, 1, <<>>)

\* Object.entries(sectionFilter).filter(value instanceof PrimaryKey)
primaryKeysOf(sectionFilter) ==
    SelectSeq(sectionFilter, LAMBDA e : e.value.tag = "pk")

\* one section of getMultipleNavigation: {id, nav} and the section's filter
\* without its primary keys
sectionNavigation(sectionNav, sectionFilter) ==
    LET primaryKeys == primaryKeysOf(sectionFilter)
    IN  [entry |-> [id |-> IF Len(primaryKeys) = 0 THEN JsNull ELSE primaryKeys[1].value,
                    nav |-> sectionNav],
         filter |-> SelectSeq(sectionFilter, LAMBDA e : e.value.tag # "pk")]

\* buildRecordSet(data) for an array: a record-set of its entries, in order
buildRecordSet(data) == [recordSet |-> data]

\* passQuery on a query without orderBy and select: {Фильтр, Сортировка,
\* Навигация, ДопПоля} and what became of the query
passQuery(query, options) ==
    LET navigated == getNavigationParams(query, options)
        nav == [i \in 1..Len(navigated) |-> navigated[i].params]
        wheres == [i \in 1..Len(navigated) |-> navigated[i].where]
        filter == [i \in 1..Len(wheres) |-> expressionToObject(wheres[i])]
        isMultipleNavigation == Len(nav) > 1
        sections == [i \in 1..Len(nav) |-> sectionNavigation(nav[i], filter[i])]
        sent == IF isMultipleNavigation
                THEN [i \in 1..Len(nav) |-> sections[i].filter]
                ELSE filter
    IN  [nav |-> nav,
         where |-> wheres,
         args |-> [Filtr |-> mergeFilterParams(sent),
                   Sortirovka |-> JsNull,
                   Navigatsiya |-> IF isMultipleNavigation
                                   THEN buildRecordSet(
                                            [i \in 1..Len(nav) |-> sections[i].entry])
                                   ELSE nav[1],
                   DopPolya |-> <<>>]]

----------------------------------------------------------------------------
(* The options of the source *)

\* Remote.prototype._$options
RemoteOptionsByOffset == [updateOnlyChanged |-> FALSE, navigationType |-> "Offset"]

RemoteOptions == [updateOnlyChanged |-> FALSE, navigationType |-> "Page"]

\* {...base, ...added}
addOptions(base, added) ==
    [k \in DOMAIN base \cup DOMAIN added |-> IF k \in DOMAIN added THEN added[k] ELSE base[k]]

\* SbisService.prototype._$options: those of Rpc, which are those of Remote,
\* with hasMoreProperty and passAddFieldsFromMeta
SbisServiceOptions ==
    addOptions(RemoteOptions, [hasMoreProperty |-> "hasMore", passAddFieldsFromMeta |-> FALSE])

\* _$options of a source constructed with {options: given}
constructOptions(given) == addOptions(SbisServiceOptions, given)

----------------------------------------------------------------------------
(* The arguments of query() for one query *)

\* "a", "a>", "a>=", "a<", "a<=", "a~", "b<", "<"
KeyPool == { <<97>>, <<97, 62>>, <<97, 62, 61>>, <<97, 60>>, <<97, 60, 61>>,
             <<97, 126>>, <<98, 60>>, <<60>> }

ValuePool == { JsUndefined, JsNull, Val(1), Val(2) }

RECURSIVE FiltersUpTo(_)
\* filter expressions of at most n keys, all different
FiltersUpTo(n) ==
    IF n = 0 THEN {<<>>}
    ELSE LET shorter == FiltersUpTo(n - 1)
         IN  shorter \cup
             { Append(f, [key |-> k, value |-> v]) :
                 f \in {g \in shorter : Len(g) = n - 1}, k \in KeyPool, v \in ValuePool }

DistinctKeys(f) == \A i, j \in 1..Len(f) : f[i].key = f[j].key => i = j

Filters == {f \in FiltersUpTo(MaxFilterLen) : DistinctKeys(f)}

Offsets == ((0 - 2)..MaxOffset) \cup {20}

Limits == {JsUndefined, JsNull} \cup {Num(n) : n \in ((0 - 1)..MaxLimit) \cup {10}}

Metas ==
    [navigationType : {""}, moreName : {"hasMore", "more"}, hasOwnMore : {TRUE},
     more : BOOLEAN] \cup {EmptyMeta}

\* one query paged by numbers
NumericQueries ==
    { Query(o, l, m, w, <<>>) :
        o \in Offsets, l \in Limits, m \in Metas,
        w \in {<<>>, <<[key |-> <<97, 62>>, value |-> Val(1)]>>} }

\* one query paged by a cursor
CursorQueries ==
    { Query(o, l, EmptyMeta, w, <<>>) :
        o \in {0, MaxOffset}, l \in {JsUndefined, Num(50)}, w \in Filters }

\* a sub-query with a navigation type of its own, or none
UnionNodes ==
    { Query(ol[1], ol[2], [EmptyMeta EXCEPT !.navigationType = t], <<>>, <<>>) :
        ol \in {<<0, JsUndefined>>, <<20, Num(10)>>},
        t \in {"", "Page", "Offset", "Position"} }

RECURSIVE QueriesOf(_)
RECURSIVE UnionsOf(_)
\* the queries of exactly n sub-queries, themselves included
QueriesOf(n) ==
    { [nd EXCEPT !.union = u] : nd \in UnionNodes, u \in UnionsOf(n - 1) }

\* the lists of queries of m sub-queries in all
UnionsOf(m) ==
    IF m = 0 THEN {<<>>}
    ELSE UNION { { <<t>> \o f : t \in QueriesOf(k), f \in UnionsOf(m - k) } : k \in 1..m }

\* filters of sections: {}, {a: PK(1)}, {a: PK(1), c: PK(2)}, {a: 1, c: PK(2)},
\* {a: PK(1), c: 2}, {c: 2}
SectionFilters ==
    { <<>>,
      << [key |-> <<97>>, value |-> PrimaryKey(1)] >>,
      << [key |-> <<97>>, value |-> PrimaryKey(1)], [key |-> <<99>>, value |-> PrimaryKey(2)] >>,
      << [key |-> <<97>>, value |-> Val(1)], [key |-> <<99>>, value |-> PrimaryKey(2)] >>,
      << [key |-> <<97>>, value |-> PrimaryKey(1)], [key |-> <<99>>, value |-> Val(2)] >>,
      << [key |-> <<99>>, value |-> Val(2)] >> }

\* two sections, each with a filter and a page of its own
SectionQueries ==
    { Query(20, Num(10), EmptyMeta, f,
            << Query(20, Num(10), EmptyMeta, g, <<>>) >>) :
        f \in SectionFilters, g \in SectionFilters }

\* options with or without navigationType ("": a falsy one; "Other": one that
\* names no mode), with or without hasMoreProperty
GivenOptions ==
    [navigationType : {"", "Page", "Offset", "Position", "Other"}]
        \cup [navigationType : {"Page", "Offset", "Position"}, hasMoreProperty : {"more"}]
        \cup {[passAddFieldsFromMeta |-> FALSE], [hasMoreProperty |-> "more"]}

InitNav ==
    /\ navPc = "input"
    /\ \/ /\ navQuery \in NumericQueries
          /\ navGiven \in GivenOptions
       \/ /\ navQuery \in CursorQueries
          /\ navGiven = [navigationType |-> "Position"]
       \/ /\ navQuery \in UNION { QueriesOf(n) : n \in 2..MaxSubQueries } \cup SectionQueries
          /\ navGiven \in [navigationType : {"Page", "Offset"}]
    /\ navOptions = constructOptions(navGiven)
    /\ navResult = <<>> /\ navWhere = <<>> /\ navArgs = <<>>
    /\ CidParked /\ GrpParked /\ SvcParked /\ MnParked /\ UpdParked /\ DbParked /\ QryParked

\* getQueryArguments(query, options)
GetQueryArguments ==
    /\ navPc = "input"
    /\ LET r == passQuery(navQuery, navOptions)
       IN  /\ navResult' = r.nav
           /\ navWhere' = r.where
           /\ navArgs' = r.args
    /\ navPc' = "done"
    /\ UNCHANGED <<navQuery, navGiven, navOptions, cidVars, grpVars, svcVars, mnVars, updVars, dbVars, qryVars>>

NextNav == GetQueryArguments

SpecNav == InitNav /\ [][NextNav]_vars

----------------------------------------------------------------------------
(* Claims on the navigation payload *)

\* the navigation mode of a sub-query: its own metadata first, then the option
ModeOf(q) ==
    IF q.meta.navigationType # "" THEN q.meta.navigationType
    ELSE navOptions.navigationType

LimitUnset(q) == q.limit.tag \in {"undefined", "null"}

IsNoParams(p) == DOMAIN p = {"null"}

PageFields == {"Stranitsa", "RazmerStranitsy", "EstEsche"}
OffsetFields == {"Offset", "Limit", "HasMore"}
PositionFields == {"HasMore", "Limit", "Direction", "Position"}

\* p = floor(o / l) for l > 0
IsFloorOf(p, o, l) == p * l <= o /\ o < (p + 1) * l

\* C7: in page mode a sub-query with offset o and limit l yields
\* {page = (l > 0 ? floor(o / l) : 0), pageSize = l, hasMore}, and yields no
\* payload exactly when o = 0 and l is unset.
C7_PagePayload ==
    navPc = "done" =>
        LET subs == eachQuery(navQuery)
        IN  \A i \in 1..Len(subs) :
              ModeOf(subs[i]) = "Page" =>
                LET q == subs[i]
                    p == navResult[i]
                IN  IF q.offset = 0 /\ LimitUnset(q)
                    THEN IsNoParams(p)
                    ELSE /\ DOMAIN p = PageFields
                         /\ p.RazmerStranitsy = q.limit
                         /\ p.EstEsche \in BOOLEAN
                         /\ IF q.limit.tag = "num" /\ q.limit.v > 0
                            THEN IsFloorOf(p.Stranitsa, q.offset, q.limit.v)
                            ELSE p.Stranitsa = 0

\* page mode, offset 20, limit 10: page 2 of size 10
C7_Witness ==
    /\ navPc = "done"
    /\ ModeOf(navQuery) = "Page"
    /\ navQuery.offset = 20 /\ navQuery.limit = Num(10)
    /\ DOMAIN navResult[1] = PageFields
    /\ navResult[1].Stranitsa = 2
    /\ navResult[1].RazmerStranitsy = Num(10)
    /\ DOMAIN navArgs.Navigatsiya = PageFields

\* the operand a key ends in: "<=" or ">=", else "<", ">" or "~", else none
OperandOf(key) ==
    LET n == Len(key)
    IN  IF n >= 2 /\ SubSeq(key, n - 1, n) \in {<<60, 61>>, <<62, 61>>}
        THEN SubSeq(key, n - 1, n)
        ELSE IF n >= 1 /\ key[n] \in {60, 62, 126} THEN <<key[n]>>
        ELSE <<>>

FieldOf(key) == SubSeq(key, 1, Len(key) - Len(OperandOf(key)))

EndsInOperand(key) == OperandOf(key) # <<>>

\* a field name followed by an operand
IsCursorKey(key) == EndsInOperand(key) /\ FieldOf(key) # <<>>

IsCursorPair(e) == IsCursorKey(e.key) /\ e.value.tag # "undefined"

ClaimedDirection(operand) ==
    IF operand \in {<<60>>, <<60, 61>>} THEN "backward"
    ELSE IF operand = <<126>> THEN "bothways"
    ELSE "forward"

InPositionMode(q) == ModeOf(q) = "Position" /\ ~LimitUnset(q)

\* C8: in position mode the cursor direction is fixed by the first matched
\* operand in filter order ('<', '<=': backward; '~': bothways; '>', '>=':
\* forward) and is not changed by later operands.
C8_DirectionOfFirstOperand ==
    navPc = "done" =>
        LET subs == eachQuery(navQuery)
        IN  \A i \in 1..Len(subs) :
              InPositionMode(subs[i]) =>
                LET matched == SelectSeq(subs[i].where, IsCursorPair)
                IN  Len(matched) > 0 =>
                      navResult[i].Direction = ClaimedDirection(OperandOf(matched[1].key))

KeysOf(pairs) == {pairs[j].key : j \in 1..Len(pairs)}

PairsOf(pairs) == {pairs[j] : j \in 1..Len(pairs)}

\* the value the position holds for a field: that of the last cursor pair of
\* the field with a non-null value
IsLastOfField(where, j) ==
    \A k \in (j + 1)..Len(where) :
        ~(/\ IsCursorPair(where[k])
          /\ where[k].value.tag # "null"
          /\ FieldOf(where[k].key) = FieldOf(where[j].key))

\* C9 as stated: in position mode with limit set, every filter key that ends
\* in a cursor operand (after a field name) is consumed: a non-null value is stored in the position
\* under the bare field name, and the key is removed from the filter, so that
\* neither the query's filter after the call nor the filter payload holds it.
C9_EveryOperandKeyConsumed ==
    navPc = "done" =>
        LET subs == eachQuery(navQuery)
        IN  \A i \in 1..Len(subs) :
              InPositionMode(subs[i]) =>
                \A j \in 1..Len(subs[i].where) :
                  LET e == subs[i].where[j]
                  IN  IsCursorKey(e.key) =>
                        /\ e.key \notin KeysOf(navWhere[i])
                        /\ Len(subs) = 1 => e.key \notin KeysOf(navArgs.Filtr)
                        /\ e.value.tag # "null" =>
                             FieldOf(e.key) \in KeysOf(navResult[i].Position.fields)

\* C9, amended: in position mode with limit set, every filter key made of a
\* field name and a cursor operand whose value is not undefined is consumed: a
\* non-null value is stored in the position under the field name (the last
\* such key of a field wins), a null value enters nothing, and the key is
\* removed from the query's filter and from the filter payload; every other
\* pair, a key with an undefined value included, stays in both, and the
\* position holds nothing else.
C9_DefinedOperandKeysConsumed ==
    navPc = "done" =>
        LET subs == eachQuery(navQuery)
        IN  \A i \in 1..Len(subs) :
              InPositionMode(subs[i]) =>
                LET where == subs[i].where
                    position == navResult[i].Position
                    stored == {j \in 1..Len(where) :
                                 IsCursorPair(where[j]) /\ where[j].value.tag # "null"}
                IN  /\ \A j \in 1..Len(where) :
                          IF IsCursorPair(where[j])
                          THEN /\ where[j].key \notin KeysOf(navWhere[i])
                               /\ Len(subs) = 1 => where[j].key \notin KeysOf(navArgs.Filtr)
                          ELSE /\ where[j] \in PairsOf(navWhere[i])
                               /\ Len(subs) = 1 => where[j] \in PairsOf(navArgs.Filtr)
                    /\ \A j \in stored :
                          IsLastOfField(where, j) =>
                              [key |-> FieldOf(where[j].key), value |-> where[j].value]
                                  \in PairsOf(position.fields)
                    /\ KeysOf(position.fields) = {FieldOf(where[j].key) : j \in stored}
                    /\ position.isNull <=> stored = {}

\* filter {"a>=": 1, "b<": undefined}, limit 50: position {a: 1}, direction
\* forward, and the filter keeps "b<" alone
C9_Witness ==
    /\ navPc = "done"
    /\ InPositionMode(navQuery)
    /\ navQuery.where = << [key |-> <<97, 62, 61>>, value |-> Val(1)],
                           [key |-> <<98, 60>>, value |-> JsUndefined] >>
    /\ navResult[1].Position = [isNull |-> FALSE,
                                fields |-> <<[key |-> <<97>>, value |-> Val(1)]>>]
    /\ navResult[1].Direction = "forward"
    /\ navWhere[1] = <<[key |-> <<98, 60>>, value |-> JsUndefined]>>
    /\ navArgs.Filtr = navWhere[1]

FieldsOfMode(mode) ==
    IF mode = "Page" THEN PageFields
    ELSE IF mode = "Position" THEN PositionFields
    ELSE OffsetFields

\* C10: each sub-query (the query and every transitively unioned one) gets the
\* payload of the navigationType of its own metadata when present, otherwise
\* of the source-level option.
C10_ModePerSubQuery ==
    navPc = "done" =>
        LET subs == eachQuery(navQuery)
        IN  /\ Len(navResult) = Len(subs)
            /\ \A i \in 1..Len(subs) :
                  /\ DOMAIN navResult[i] \in {{"null"}, FieldsOfMode(ModeOf(subs[i]))}
                  /\ (subs[i].offset # 0 /\ ~LimitUnset(subs[i])) =>
                        DOMAIN navResult[i] = FieldsOfMode(ModeOf(subs[i]))

\* a query in offset mode by the option, united with one in page mode and one
\* in position mode by their metadata
C10_Witness ==
    /\ navPc = "done"
    /\ navOptions.navigationType = "Offset"
    /\ navQuery.meta.navigationType = ""
    /\ navQuery.offset = 20
    /\ Len(navQuery.union) = 2
    /\ navQuery.union[1] = Query(20, Num(10), [EmptyMeta EXCEPT !.navigationType = "Page"],
                                 <<>>, <<>>)
    /\ navQuery.union[2] = Query(20, Num(10), [EmptyMeta EXCEPT !.navigationType = "Position"],
                                 <<>>, <<>>)
    /\ DOMAIN navResult[1] = OffsetFields
    /\ DOMAIN navResult[2] = PageFields
    /\ DOMAIN navResult[3] = PositionFields

----------------------------------------------------------------------------
(* Claims on the default mode, the offset payload and the has-more flag *)

\* C11: a source constructed without a navigationType option and queried
\* without navigationType metadata emits the page-mode payload, not the
\* offset-mode one.
C11_PageModeByDefault ==
    (navPc = "done" /\ "navigationType" \notin DOMAIN navGiven) =>
        LET subs == eachQuery(navQuery)
        IN  \A i \in 1..Len(subs) :
              subs[i].meta.navigationType = "" =>
                /\ DOMAIN navResult[i] \in {{"null"}, PageFields}
                /\ (subs[i].offset # 0 \/ ~LimitUnset(subs[i])) =>
                      DOMAIN navResult[i] = PageFields

\* no navigationType anywhere, offset 20, limit 10: page 2
C11_Witness ==
    /\ navPc = "done"
    /\ "navigationType" \notin DOMAIN navGiven
    /\ navQuery.meta.navigationType = ""
    /\ navQuery.offset = 20 /\ navQuery.limit = Num(10)
    /\ DOMAIN navResult[1] = PageFields
    /\ navResult[1].Stranitsa = 2

\* C12: when the resolved navigation type is neither page nor position, a
\* sub-query with offset o and limit l yields {Offset = o, Limit = l, HasMore},
\* and no payload exactly when o = 0 and l is unset.
C12_OffsetPayload ==
    navPc = "done" =>
        LET subs == eachQuery(navQuery)
        IN  \A i \in 1..Len(subs) :
              ModeOf(subs[i]) \notin {"Page", "Position"} =>
                LET q == subs[i]
                    p == navResult[i]
                IN  IF q.offset = 0 /\ LimitUnset(q)
                    THEN IsNoParams(p)
                    ELSE /\ DOMAIN p = OffsetFields
                         /\ p.Offset = q.offset
                         /\ p.Limit = q.limit
                         /\ p.HasMore \in BOOLEAN

\* a navigation type that names no mode, offset 20, limit 10
C12_Witness ==
    /\ navPc = "done"
    /\ navOptions.navigationType = "Other"
    /\ navQuery.meta.navigationType = ""
    /\ navQuery.offset = 20 /\ navQuery.limit = Num(10)
    /\ DOMAIN navResult[1] = OffsetFields
    /\ navResult[1].Offset = 20
    /\ navResult[1].Limit = Num(10)

\* the has-more flag of a payload
FlagOf(p) == IF DOMAIN p = PageFields THEN p.EstEsche ELSE p.HasMore

\* C13: in every mode the has-more flag of the payload is the value the
\* metadata holds under the configured hasMoreProperty when it has that
\* property (false included), and (offset >= 0) otherwise.
C13_HasMoreFlag ==
    navPc = "done" =>
        LET subs == eachQuery(navQuery)
        IN  \A i \in 1..Len(subs) :
              ~IsNoParams(navResult[i]) =>
                LET meta == subs[i].meta
                IN  FlagOf(navResult[i]) =
                        IF meta.hasOwnMore /\ meta.moreName = navOptions.hasMoreProperty
                        THEN meta.more
                        ELSE subs[i].offset >= 0

\* hasMoreProperty 'more', meta {more: false}, offset 20: the flag is false
C13_Witness ==
    /\ navPc = "done"
    /\ navOptions.hasMoreProperty = "more"
    /\ navQuery.meta.hasOwnMore /\ navQuery.meta.moreName = "more" /\ ~navQuery.meta.more
    /\ navQuery.offset = 20 /\ navQuery.limit = Num(10)
    /\ ModeOf(navQuery) = "Position"
    /\ ~IsNoParams(navResult[1])
    /\ navResult[1].HasMore = FALSE

----------------------------------------------------------------------------
(* The qualification of a method name *)

\* '.', "R", "d"
NameAlphabet == {46, 82, 100}

\* none, "C", "Cb"
ObjectNames == { <<>>, <<67>>, <<67, 98>> }

InitMethodName ==
    /\ mnPc = "input"
    /\ mnObject \in ObjectNames
    /\ mnName \in StringsUpTo(NameAlphabet, MaxNameLen)
    /\ mnCalled = <<>> /\ mnBuilt = <<>>
    /\ CidParked /\ GrpParked /\ SvcParked /\ NavParked /\ UpdParked /\ DbParked /\ QryParked

\* the provider with endpoint.contract = mnObject is called with mnName, and
\* buildBlMethodName(mnObject, mnName) is computed
QualifyMethodName ==
    /\ mnPc = "input"
    /\ mnPc' = "done"
    /\ mnCalled' = qualifiedMethodName(mnObject, mnName)
    /\ mnBuilt' = buildBlMethodName(mnObject, mnName)
    /\ UNCHANGED <<mnObject, mnName, cidVars, grpVars, svcVars, navVars, updVars, dbVars, qryVars>>

NextMethodName == QualifyMethodName

SpecMethodName == InitMethodName /\ [][NextMethodName]_vars

HasSeparator(name) == \E i \in 1..Len(name) : name[i] = 46

Prefixed(prefix, name) == prefix \o <<46>> \o name

\* C14 as stated: SbisBusinessLogic.call hands the name unchanged to the
\* transport when it contains '.', and otherwise prefixed with
\* '<endpoint.contract>.'; buildBlMethodName does the same with objectName.
C14_QualifiedUnlessNamespaced ==
    mnPc = "done" =>
        /\ mnCalled = IF HasSeparator(mnName) THEN mnName ELSE Prefixed(mnObject, mnName)
        /\ mnBuilt = IF HasSeparator(mnName) THEN mnName ELSE Prefixed(mnObject, mnName)

\* C14, amended: SbisBusinessLogic.call hands the name unchanged when it
\* contains '.' or when the endpoint has no contract, and otherwise prefixed
\* with '<endpoint.contract>.'; buildBlMethodName hands the name unchanged when
\* it contains '.', and otherwise prefixed with '<objectName>.', an empty
\* objectName included.
C14_QualifiedByContractIfAny ==
    mnPc = "done" =>
        /\ mnCalled = IF HasSeparator(mnName) \/ mnObject = <<>> THEN mnName
                      ELSE Prefixed(mnObject, mnName)
        /\ mnBuilt = IF HasSeparator(mnName) THEN mnName ELSE Prefixed(mnObject, mnName)

\* "Rd" with contract "C" becomes "C.Rd"; "R.d" stays
C14_Witness ==
    /\ mnPc = "done"
    /\ mnObject = <<67>>
    /\ \/ mnName = <<82, 100>> /\ mnCalled = <<67, 46, 82, 100>> /\ mnBuilt = mnCalled
       \/ mnName = <<82, 46, 100>> /\ mnCalled = mnName /\ mnBuilt = mnName

----------------------------------------------------------------------------
(* update(data, meta): the update strategies and the batch update *)

\* most records of a record-set
MaxRecords == 2

isNull(value) == value = JsNull \/ value = JsUndefined

\* isEmpty on the name of a property: '' is the only empty name drawn
isEmpty(name) == name = ""

\* A model: its fields in the order of its format, the names of its changed
\* fields as getChanged() gives them, and whether it was added to its
\* record-set since the last acceptChanges()
Model(idProperty, id, changed, added) ==
    [kind |-> "model",
     fields |-> << [name |-> "id", value |-> id],
                   [name |-> "a", value |-> Val(1)],
                   [name |-> "b", value |-> Val(2)] >>,
     added |-> added, idProperty |-> idProperty, changed |-> changed]

\* A record-set: its records, and those removed since the last acceptChanges()
RecordSet(idProperty, items, removed) ==
    [kind |-> "list", idProperty |-> idProperty, items |-> items, removed |-> removed]

\* record.get(name): undefined for a field the record has not
get(record, name) ==
    IF \E i \in 1..Len(record.fields) : record.fields[i].name = name
    THEN record.fields[CHOOSE i \in 1..Len(record.fields) :
                           record.fields[i].name = name].value
    ELSE JsUndefined

getChanged(record) == record.changed

isChanged(record) == record.changed # <<>>

isModelInstance(data) == data # JsUndefined /\ data.kind = "model"

isListInstance(data) == data # JsUndefined /\ data.kind = "list"

isRecordSetInstance(data) == data # JsUndefined /\ data.kind = "list"

\* changed.unshift(idProperty)
unshift(array, item) == <<item>> \o array

\* Record.filterFields(record, names): a record of the named fields only
filterFields(record, names) ==
    LET Named(field) == \E i \in 1..Len(names) : names[i] = field.name
    IN  [kind |-> "record", fields |-> SelectSeq(record.fields, Named)]

\* A variant of _getValidIdProperty that asks the source only
idPropertyOfSource(sourceIdProperty, data) == sourceIdProperty

\* Remote._getValidIdProperty(data): models and record-sets have getIdProperty
getValidIdProperty(sourceIdProperty, data) ==
    IF ~isEmpty(sourceIdProperty) THEN sourceIdProperty
    ELSE IF data.kind \in {"model", "list"} THEN data.idProperty
    ELSE sourceIdProperty

\* Remote's passUpdate: the array [data, meta]
RemotePassUpdate(options, sourceIdProperty, data, meta) ==
    LET idProperty == getValidIdProperty(sourceIdProperty, data)
        NewOrChanged(record) == isNull(get(record, idProperty)) \/ isChanged(record)
        narrowed ==
            IF options.updateOnlyChanged /\ ~isEmpty(idProperty)
            THEN IF isModelInstance(data) /\ ~isNull(get(data, idProperty))
                 THEN filterFields(data, unshift(getChanged(data), idProperty))
                 ELSE IF isListInstance(data)
                 THEN RecordSet(data.idProperty, SelectSeq(data.items, NewOrChanged), <<>>)
                 ELSE data
            ELSE data
    IN  <<narrowed, meta>>

\* value[name] of an array for a name that is not an index: its length, or
\* undefined
member(array, name) == IF name = "length" THEN Num(Len(array)) ELSE JsUndefined

\* meta && Object.keys(meta).length
hasKeys(meta) == meta # JsUndefined /\ meta.v > 0

\* SbisService's passUpdate: the object {Запись | Записи: ..., ДопПоля: ...}
\* as its keys and values in order ("Zapis", "Zapisi", "DopPolya")
passUpdate(options, sourceIdProperty, data, meta) ==
    LET superArgs == RemotePassUpdate(options, sourceIdProperty, data, meta)
        recordArg == IF isRecordSetInstance(member(superArgs, "data"))
                     THEN "Zapisi" ELSE "Zapis"
    IN  << [key |-> recordArg, value |-> member(superArgs, "data")] >>
        \o (IF options.passAddFieldsFromMeta /\ hasKeys(meta)
            THEN << [key |-> "DopPolya", value |-> meta] >> ELSE <<>>)

\* RecordSet.patch(items): the changed records, the added ones, the removed
patch(items) ==
    LET Changed(record) == ~record.added /\ isChanged(record)
        Added(record) == record.added
    IN  [changed |-> SelectSeq(items.items, Changed),
         added |-> SelectSeq(items.items, Added),
         removed |-> items.removed]

passUpdateBatch(items, meta) ==
    [changed |-> patch(items).changed,
     added |-> patch(items).added,
     removed |-> patch(items).removed]

\* the values of the identifier, the changes of a record and the meta data
IdValues == {JsNull, Val(5)}
Changes == { <<>>, <<"a">>, <<"id", "b">> }
UpdateMetas == {JsUndefined, [tag |-> "object", v |-> 1]}

Models == {Model(p, id, changed, FALSE) :
               p \in {"", "id"}, id \in IdValues, changed \in Changes}

RecordsOf(p) == {Model(p, id, changed, added) :
                     id \in IdValues, changed \in Changes, added \in BOOLEAN}

RecordSets ==
    UNION {{RecordSet(p, items, removed) :
                items \in UNION {[1..n -> RecordsOf(p)] : n \in 0..MaxRecords},
                removed \in {<<>>, <<Model(p, Val(6), <<>>, FALSE)>>}} :
           p \in {"", "id"}}

InitUpdate ==
    /\ updPc = "input"
    /\ updData \in Models \cup RecordSets
    /\ updMeta \in UpdateMetas
    /\ updOptions \in [updateOnlyChanged : BOOLEAN, passAddFieldsFromMeta : BOOLEAN]
    /\ updIdProperty \in {"", "id"}
    /\ updBinding \in [update : {"Update"}, updateBatch : {"", "Batch"}]
    /\ updSuper = <<>> /\ updCalls = <<>>
    /\ CidParked /\ GrpParked /\ SvcParked /\ NavParked /\ MnParked /\ DbParked /\ QryParked

\* SbisService.update(data, meta).  With binding.updateBatch and a record-set
\* it hands a callback to _loadAdditionalDependencies and returns: no call is
\* made yet.  Otherwise Remote.update builds the arguments and calls the
\* provider before it returns.
Update ==
    /\ updPc = "input"
    /\ IF updBinding.updateBatch # "" /\ isRecordSetInstance(updData)
       THEN /\ updPc' = "loading"
            /\ UNCHANGED <<updCalls, updSuper>>
       ELSE /\ updPc' = "called"
            /\ updCalls' = << [name |-> updBinding.update,
                               args |-> passUpdate(updOptions, updIdProperty,
                                                   updData, updMeta)] >>
            /\ updSuper' = RemotePassUpdate(updOptions, updIdProperty, updData, updMeta)
    /\ UNCHANGED <<updData, updMeta, updOptions, updIdProperty, updBinding,
                   cidVars, grpVars, svcVars, navVars, mnVars, dbVars, qryVars>>

\* the caller adds a record to its record-set while the callback of update()
\* waits for the additional dependencies
CallerAdds(record) ==
    /\ updPc = "loading"
    /\ Len(updData.items) < MaxRecords
    /\ updData' = [updData EXCEPT !.items = Append(@, record)]
    /\ UNCHANGED <<updPc, updMeta, updOptions, updIdProperty, updBinding, updSuper, updCalls,
                   cidVars, grpVars, svcVars, navVars, mnVars, dbVars, qryVars>>

\* the callback update() gave to _loadAdditionalDependencies: passUpdateBatch
\* reads the record-set as it is now, and the provider is called
UpdateBatch ==
    /\ updPc = "loading"
    /\ updPc' = "called"
    /\ updCalls' = << [name |-> updBinding.updateBatch,
                       args |-> passUpdateBatch(updData, updMeta)] >>
    /\ UNCHANGED <<updData, updMeta, updOptions, updIdProperty, updBinding, updSuper,
                   cidVars, grpVars, svcVars, navVars, mnVars, dbVars, qryVars>>

NextUpdate ==
    \/ Update
    \/ \E record \in {Model(updData.idProperty, JsNull, <<>>, TRUE)} : CallerAdds(record)
    \/ UpdateBatch

SpecUpdate == InitUpdate /\ [][NextUpdate]_vars

\* the names of the fields of a record, and the names of a list
NamesOf(record) == {record.fields[i].name : i \in 1..Len(record.fields)}
NamesIn(names) == {names[i] : i \in 1..Len(names)}

\* the identifier property the claim calls resolvable: the source's, or else
\* the payload's own
ResolvedIdProperty == IF updIdProperty # "" THEN updIdProperty ELSE updData.idProperty

HasIdValue(record, name) ==
    \E i \in 1..Len(record.fields) :
        /\ record.fields[i].name = name
        /\ record.fields[i].value \notin {JsNull, JsUndefined}

\* C19: with updateOnlyChanged, Remote's update strategy narrows a record
\* with a resolvable identifier property and a non-null identifier to its
\* changed fields plus the identifier field (that field alone when nothing
\* changed) and a record-set to its new (null identifier) or changed members;
\* with no resolvable identifier property the payload is passed whole.
C19_UpdateOnlyChangedNarrows ==
    (updPc = "called" /\ updSuper # <<>> /\ updOptions.updateOnlyChanged) =>
        LET payload == updSuper[1]
            id == ResolvedIdProperty
            Kept(record) == ~HasIdValue(record, id) \/ record.changed # <<>>
        IN  /\ id = "" => payload = updData
            /\ (id # "" /\ updData.kind = "model" /\ HasIdValue(updData, id)) =>
                  /\ NamesOf(payload) = {id} \cup NamesIn(updData.changed)
                  /\ \A i \in 1..Len(payload.fields) :
                         \E j \in 1..Len(updData.fields) :
                             payload.fields[i] = updData.fields[j]
                  /\ updData.changed = <<>> => Len(payload.fields) = 1
            /\ (id # "" /\ updData.kind = "list") =>
                  /\ payload.kind = "list"
                  /\ payload.items = SelectSeq(updData.items, Kept)

\* the source has no idProperty, the model's is 'id' with value 5 and nothing
\* changed: the payload is the field id alone
C19_Witness ==
    /\ updPc = "called"
    /\ updOptions.updateOnlyChanged
    /\ updIdProperty = "" /\ updData.kind = "model" /\ updData.idProperty = "id"
    /\ updData.changed = <<>>
    /\ updSuper # <<>>
    /\ updSuper[1].fields = << [name |-> "id", value |-> Val(5)] >>

\* C20: update calls binding.updateBatch with {changed, added, removed}
\* exactly when binding.updateBatch is not empty and the payload is a
\* record-set; otherwise it calls binding.update with the whole payload; in
\* both cases it makes one call.
C20_BatchOrRegularUpdate ==
    updPc = "called" =>
        /\ Len(updCalls) = 1
        /\ IF updBinding.updateBatch # "" /\ updData.kind = "list"
           THEN /\ updCalls[1].name = updBinding.updateBatch
                /\ updCalls[1].args =
                       [changed |-> patch(updData).changed,
                        added |-> patch(updData).added,
                        removed |-> patch(updData).removed]
           ELSE /\ updCalls[1].name = updBinding.update
                /\ \E i \in 1..Len(updCalls[1].args) :
                       /\ updCalls[1].args[i].key \in {"Zapis", "Zapisi"}
                       /\ updCalls[1].args[i].value = updData

----------------------------------------------------------------------------
(* debounce(original, delay, first) *)

MIN_DELAY == 5

\* most calls of the debounced function
MaxDebounceCalls == 4

\* how long after it is due the callback of a timeout may run, in ms
MaxLateness == 1

\* no timeout is pending: timer is undefined or null
NoTimer == [set |-> FALSE, deadline |-> 0, call |-> 0]

\* A variant of setTimeout that lets the callback run at once
setTimeoutNow(now, delay, call) == [set |-> TRUE, deadline |-> now, call |-> call]

\* setTimeout(callback, delay) for the call-th call: the callback is due delay
\* later, and holds the arguments of that call
setTimeout(now, delay, call) == [set |-> TRUE, deadline |-> now + delay, call |-> call]

\* the condition of the immediate call: lines 63 and 166
callsAtOnce(revision, states, first, timer, delay) ==
    IF revision = "56-82"
    THEN first /\ ~timer.set /\ delay > MIN_DELAY
    ELSE ~states.firstCalled /\ first /\ ~timer.set /\ delay > MIN_DELAY

\* the condition of the call by the timer: lines 77 and 181
callsByTimer(states) == states.sequentialCall \/ ~states.firstCalled

Invocation(by, call) == [by |-> by, at |-> dbNow, call |-> call, args |-> call]

InitDebounce ==
    /\ dbRevision \in {"56-82", "152-186"}
    /\ dbDelay \in {MIN_DELAY, MIN_DELAY + 1}
    /\ dbFirst \in BOOLEAN
    /\ dbNow = 0
    /\ dbTimer = NoTimer
    /\ dbStates = [firstCalled |-> FALSE, sequentialCall |-> FALSE]
    /\ dbCalls = <<>> /\ dbLog = <<>>
    /\ CidParked /\ GrpParked /\ SvcParked /\ NavParked /\ MnParked /\ UpdParked /\ QryParked

\* the debounced function is called; the arguments of the k-th call are k
DebouncedCall ==
    LET k == Len(dbCalls) + 1
        atOnce == callsAtOnce(dbRevision, dbStates, dbFirst, dbTimer, dbDelay)
    IN  /\ dbRevision # "off"
        /\ k <= MaxDebounceCalls
        /\ dbCalls' = Append(dbCalls, [at |-> dbNow, args |-> k, pending |-> dbTimer.set])
        /\ dbLog' = IF atOnce THEN Append(dbLog, Invocation("call", k)) ELSE dbLog
        /\ dbStates' = [firstCalled |-> dbStates.firstCalled \/ atOnce,
                        sequentialCall |-> dbStates.sequentialCall \/ dbTimer.set]
        /\ dbTimer' = setTimeout(dbNow, dbDelay, k)
        /\ UNCHANGED <<dbRevision, dbDelay, dbFirst, dbNow,
                       cidVars, grpVars, svcVars, navVars, mnVars, updVars, qryVars>>

\* the callback of the pending timeout runs
TimerFires ==
    /\ dbTimer.set /\ dbNow >= dbTimer.deadline
    /\ dbTimer' = NoTimer
    /\ dbLog' = IF callsByTimer(dbStates)
                THEN Append(dbLog, Invocation("timer", dbTimer.call)) ELSE dbLog
    /\ UNCHANGED <<dbRevision, dbDelay, dbFirst, dbNow, dbStates, dbCalls,
                   cidVars, grpVars, svcVars, navVars, mnVars, updVars, qryVars>>

\* a millisecond passes while a timeout is pending.  setTimeout gives the
\* least delay only: the callback of a timeout that is due runs when the
\* thread is free, up to MaxLateness later, and a call made in between finds
\* the timeout still set.  With none pending the passing of time changes
\* nothing, and is left out
TimePasses ==
    /\ dbTimer.set /\ dbNow < dbTimer.deadline + MaxLateness
    /\ dbNow' = dbNow + 1
    /\ UNCHANGED <<dbRevision, dbDelay, dbFirst, dbTimer, dbStates, dbCalls, dbLog,
                   cidVars, grpVars, svcVars, navVars, mnVars, updVars, qryVars>>

NextDebounce ==
    \/ DebouncedCall
    \/ TimerFires
    \/ TimePasses

SpecDebounce == InitDebounce /\ [][NextDebounce]_vars

\* the invocations of original for the k-th call, and those by the timer
InvocationsOf(k) == {i \in 1..Len(dbLog) : dbLog[i].call = k}
ByTimer == {i \in 1..Len(dbLog) : dbLog[i].by = "timer"}

\* the k-th call is the last of its burst: no later call came less than delay
\* after it
LastOfBurst(k) == k = Len(dbCalls) \/ dbCalls[k + 1].at >= dbCalls[k].at + dbDelay

\* C21: debounce(original, delay), first not given: original is executed by
\* the timer only, once the delay after the last call of a burst has passed
\* (no earlier, and no later than the timeout's callback runs) and with its
\* arguments, once per burst; a call followed by another one less than delay
\* later is never executed, and the last call of a burst is executed unless
\* its timeout is still pending or was cancelled by the next call.
C21_OncePerBurstAfterDelay ==
    (dbRevision # "off" /\ ~dbFirst) =>
        /\ \A i \in 1..Len(dbLog) :
              LET k == dbLog[i].call
              IN  /\ dbLog[i].by = "timer"
                  /\ k \in 1..Len(dbCalls)
                  /\ LastOfBurst(k)
                  /\ dbLog[i].at >= dbCalls[k].at + dbDelay
                  /\ dbLog[i].at <= dbCalls[k].at + dbDelay + MaxLateness
                  /\ k < Len(dbCalls) => dbCalls[k + 1].at >= dbLog[i].at
                  /\ dbLog[i].args = dbCalls[k].args
        /\ \A k \in 1..Len(dbCalls) : Cardinality(InvocationsOf(k)) <= 1
        /\ \A k \in 1..Len(dbCalls) :
              (k < Len(dbCalls) /\ dbCalls[k + 1].at < dbCalls[k].at + dbDelay) =>
                  InvocationsOf(k) = {}
        /\ \A k \in 1..Len(dbCalls) :
              (LastOfBurst(k) /\ InvocationsOf(k) = {}) =>
                  \/ k = Len(dbCalls) /\ dbTimer.set /\ dbTimer.call = k
                  \/ k < Len(dbCalls) /\ dbCalls[k + 1].pending

\* two bursts: calls 1, 2, 3 each less than delay after the one before, the
\* third executed by the timer, then call 4, executed by the timer as well
C21_Witness ==
    /\ dbRevision # "off" /\ ~dbFirst
    /\ Len(dbCalls) = 4
    /\ dbCalls[2].at > dbCalls[1].at /\ dbCalls[3].at > dbCalls[2].at
    /\ ~dbCalls[4].pending
    /\ Len(dbLog) = 2
    /\ dbLog[1] = [by |-> "timer", at |-> dbCalls[3].at + dbDelay, call |-> 3, args |-> 3]
    /\ dbLog[2] = [by |-> "timer", at |-> dbCalls[4].at + dbDelay, call |-> 4, args |-> 4]

\* the k-th call starts a series: no timeout was pending when it was made
StartsSeries(k) == ~dbCalls[k].pending

\* C22: with first = true and delay > 5 the first call of every series
\* executes original immediately.
C22_FirstOfEverySeriesAtOnce ==
    (dbRevision # "off" /\ dbFirst /\ dbDelay > MIN_DELAY) =>
        \A k \in 1..Len(dbCalls) :
            StartsSeries(k) =>
                \E i \in InvocationsOf(k) :
                    dbLog[i].by = "call" /\ dbLog[i].at = dbCalls[k].at

\* the series of the k-th call is that call alone, and is over
SingleCallSeries(k) ==
    /\ StartsSeries(k)
    /\ IF k < Len(dbCalls) THEN StartsSeries(k + 1) ELSE ~dbTimer.set

\* C28: with first = true and delay > 5, a series of one single call invokes
\* original exactly once, whatever came before.
C28_SingleCallInvokedOnce ==
    (dbRevision # "off" /\ dbFirst /\ dbDelay > MIN_DELAY) =>
        \A k \in 1..Len(dbCalls) :
            SingleCallSeries(k) => Cardinality(InvocationsOf(k)) = 1

----------------------------------------------------------------------------
(* Claims on the multi-section navigation *)

\* the sub-queries that yielded navigation parameters
Yielding == {i \in 1..Len(navResult) : ~IsNoParams(navResult[i])}

IsMultiSection(navigation) == "recordSet" \in DOMAIN navigation

\* C23: passQuery sends the list of {id, nav} pairs only when more than one
\* sub-query yields navigation parameters; otherwise, unioned sub-queries or
\* not, it sends the single navigation record.
C23_MultiSectionOnlyIfSeveralYield ==
    navPc = "done" =>
        (IsMultiSection(navArgs.Navigatsiya) <=> Cardinality(Yielding) > 1)

\* the position of the first entry of a filter tagged as a primary key, or 0
FirstPrimaryKey(where) ==
    IF \E j \in 1..Len(where) : where[j].value.tag = "pk"
    THEN CHOOSE j \in 1..Len(where) :
             /\ where[j].value.tag = "pk"
             /\ \A h \in 1..(j - 1) : where[h].value.tag # "pk"
    ELSE 0

\* C24: of each section's filter only the first entry tagged as a primary key
\* is taken out and used as the section id (null if there is none); every
\* other entry, further primary keys included, is in the filter sent.
C24_OnlyFirstPrimaryKeyRemoved ==
    (navPc = "done" /\ IsMultiSection(navArgs.Navigatsiya)) =>
        \A i \in 1..Len(navWhere) :
            LET where == navWhere[i]
                first == FirstPrimaryKey(where)
            IN  /\ navArgs.Navigatsiya.recordSet[i].id =
                       (IF first = 0 THEN JsNull ELSE where[first].value)
                /\ \A j \in 1..Len(where) :
                       j # first => where[j].key \in KeysOf(navArgs.Filtr)

\* C25: in position mode a sub-query without a limit (null or undefined)
\* yields no navigation parameters and keeps its filter as it was: the keys
\* with an operand are not consumed, and are sent as filter terms.
C25_NoCursorWithoutLimit ==
    navPc = "done" =>
        LET subs == eachQuery(navQuery)
        IN  \A i \in 1..Len(subs) :
                (ModeOf(subs[i]) = "Position" /\ LimitUnset(subs[i])) =>
                    /\ IsNoParams(navResult[i])
                    /\ navWhere[i] = subs[i].where
                    /\ Len(subs) = 1 => PairsOf(navArgs.Filtr) = PairsOf(subs[i].where)

\* position mode without a limit and a filter {'a>=': 1}: no navigation, and
\* 'a>=' is sent in the filter
C25_Witness ==
    /\ navPc = "done"
    /\ navQuery.union = <<>>
    /\ ModeOf(navQuery) = "Position"
    /\ navQuery.limit = JsUndefined
    /\ navQuery.where = << [key |-> <<97, 62, 61>>, value |-> Val(1)] >>
    /\ IsNoParams(navResult[1])
    /\ navArgs.Filtr = << [key |-> <<97, 62, 61>>, value |-> Val(1)] >>

----------------------------------------------------------------------------
(* SbisService.query on a query object of the caller *)

\* most calls of query() on the one query object
MaxQueryCalls == 2

\* the address of the caller's query object
CallersQuery == 0

\* no object at an address yet
NoObject == [free |-> TRUE]

RECURSIVE withWhere(_, _, _)
RECURSIVE withWhereEach(_, _, _, _)
\* the query whose sub-queries, in eachQuery's order from the at-th on, have
\* the filters of wheres
withWhere(query, wheres, at) ==
    [query EXCEPT !.where = wheres[at],
                  !.union = withWhereEach(query.union, wheres, at + 1, 1)]

withWhereEach(union, wheres, at, i) ==
    IF i > Len(union) THEN <<>>
    ELSE <<withWhere(union[i], wheres, at)>>
            \o withWhereEach(union, wheres, at + Len(eachQuery(union[i])), i + 1)

\* object.clonePlain(query).  Its code is none of the source's; by the
\* specification the caller-owned query object is the one the cursor
\* extraction works on and mutates in place, for the length of one query().
\* The result is therefore the object at ref itself; fresh, the next free
\* address, stays free
clonePlain(heap, ref, fresh) == [at |-> ref, heap |-> heap]

\* query(): query = object.clonePlain(query)
queryCloned(heap, ref, fresh) == clonePlain(heap, ref, fresh)

\* filters of the caller: {}, {'a>=': 1}, {a: 1, 'b<': 2}, {'a~': null},
\* {'a>=': undefined, c: 2}
CallersFilters ==
    { <<>>,
      << [key |-> <<97, 62, 61>>, value |-> Val(1)] >>,
      << [key |-> <<97>>, value |-> Val(1)], [key |-> <<98, 60>>, value |-> Val(2)] >>,
      << [key |-> <<97, 126>>, value |-> JsNull] >>,
      << [key |-> <<97, 62, 61>>, value |-> JsUndefined], [key |-> <<99>>, value |-> Val(2)] >> }

\* the queries of the caller: one query with or without a limit, or two
\* sections, each with a filter of its own
CallersQueries ==
    { Query(0, l, EmptyMeta, f, <<>>) : l \in {JsUndefined, Num(50)}, f \in CallersFilters }
      \cup { Query(0, Num(50), EmptyMeta, f, << Query(0, Num(50), EmptyMeta, g, <<>>) >>) :
               f, g \in CallersFilters }

InitQuery ==
    /\ qryGiven \in CallersQueries
    /\ qryOptions \in { constructOptions([navigationType |-> t]) : t \in {"Position", "Page"} }
    /\ qryHeap = [a \in 0..MaxQueryCalls |-> IF a = CallersQuery THEN qryGiven ELSE NoObject]
    /\ qryCalls = <<>>
    /\ CidParked /\ GrpParked /\ SvcParked /\ NavParked /\ MnParked /\ UpdParked /\ DbParked

\* source.query(query), up to the loading of the additional dependencies
QueryCalled ==
    /\ Len(qryCalls) < MaxQueryCalls
    /\ LET o == queryCloned(qryHeap, CallersQuery, Len(qryCalls) + 1)
       IN  /\ qryHeap' = o.heap
           /\ qryCalls' = Append(qryCalls, [query |-> o.at, pc |-> "loading",
                                            turn |-> 0, args |-> <<>>])
    /\ UNCHANGED <<qryGiven, qryOptions, cidVars, grpVars, svcVars, navVars, mnVars, updVars, dbVars>>

\* super.query(query) of the call c: passing.query builds the arguments from
\* the query object of the call, and takes the cursor keys out of its filters
SuperQuery(c) ==
    /\ qryCalls[c].pc = "loading"
    /\ LET at == qryCalls[c].query
           r == passQuery(qryHeap[at], qryOptions)
           turns == Cardinality({d \in 1..Len(qryCalls) : qryCalls[d].pc = "called"})
       IN  /\ qryHeap' = [qryHeap EXCEPT ![at] = withWhere(@, r.where, 1)]
           /\ qryCalls' = [qryCalls EXCEPT ![c].pc = "called", ![c].turn = turns + 1,
                                           ![c].args = r.args]
    /\ UNCHANGED <<qryGiven, qryOptions, cidVars, grpVars, svcVars, navVars, mnVars, updVars, dbVars>>

NextQuery ==
    \/ QueryCalled
    \/ \E c \in 1..Len(qryCalls) : SuperQuery(c)

SpecQuery == InitQuery /\ [][NextQuery]_vars

----------------------------------------------------------------------------
(* Claims on the query object of the caller *)

\* C30: the caller's query object (its filter with the cursor keys, and the
\* filters of its unioned sub-queries) is as the caller built it whatever
\* calls of query() were made on it, and every call, overlapping another or
\* not, builds the arguments that the query as the caller built it gives.
C30_CallersQueryUntouched ==
    /\ qryHeap[CallersQuery] = qryGiven
    /\ \A c \in 1..Len(qryCalls) :
          qryCalls[c].pc = "called" =>
              qryCalls[c].args = passQuery(qryGiven, qryOptions).args

----------------------------------------------------------------------------
(* The source at work: every operation that makes a remote call *)

\* 'X': a name given to setOrderProperty
OrderProperties == { <<88>> }

\* the sources setOrderProperty is called on: those with nothing but a binding
\* of the legacy move configured
Renamed ==
    /\ ~debug /\ observer = "none" /\ passing = "default" /\ callTimeout = 0
    /\ adapter = "returning"
    /\ binding.destroy = <<68, 101, 108>>
    /\ givenEndpoint.moveContract = <<>>

\* SbisService.setOrderProperty(name)
SetOrderProperty(name) ==
    /\ Renamed
    /\ orderProperty # name
    /\ orderProperty' = name
    /\ UNCHANGED <<givenEndpoint, endpoint, binding, callTimeout, itsPromise, debug, observer,
                   passing, adapter, calls, ops, server, abortCalls,
                   cidVars, grpVars, navVars, mnVars, updVars, dbVars, qryVars>>

\* binding.format || null
formatOrNull == IF binding.format = <<>> THEN Null ELSE Str(binding.format)

\* passCreate(meta) for a plain meta, kept as its pairs: ВызовИзБраузера is
\* added unless given
passCreate(meta) ==
    [Filtr |-> buildRecord(IF \E i \in 1..Len(meta) : meta[i].key = "VyzovIzBrauzera"
                           THEN meta
                           ELSE Append(meta, [key |-> "VyzovIzBrauzera", value |-> TRUE])),
     ImyaMetoda |-> formatOrNull]

\* passRead(key, meta)
passRead(key, meta) ==
    IF SbisServiceOptions.passAddFieldsFromMeta /\ meta # <<>>
    THEN [IdO |-> key, ImyaMetoda |-> formatOrNull, DopPolya |-> meta]
    ELSE [IdO |-> key, ImyaMetoda |-> formatOrNull]

\* passCopy(key, meta)
passCopy(key, meta) ==
    IF meta # <<>>
    THEN [IdO |-> key, ImyaMetoda |-> Str(binding.format), DopPolya |-> meta]
    ELSE [IdO |-> key, ImyaMetoda |-> Str(binding.format)]

\* passMerge(target, merged)
passMerge(target, merged) == [IdO |-> target, IdOUd |-> merged]

\* the object of the keys and values of a list of pairs
asObject(pairs) ==
    [k \in {pairs[i].key : i \in 1..Len(pairs)} |->
        pairs[CHOOSE i \in 1..Len(pairs) : pairs[i].key = k].value]

\* the one call of an operation of Remote or Rpc
SingleCall(call) == [threw |-> FALSE, calls |-> <<call>>]

\* Remote.read(key, meta): '1'
Read(key) ==
    Invoke("read", key, Null, NoMeta,
           SingleCall(callProvider("read", endpoint.contract, binding.read,
                                   passRead(key, NoMeta))))

\* Remote.update(data, meta), which SbisService.update defers to without
\* binding.updateBatch
RemoteUpdate(data) ==
    Invoke("update", data, Null, NoMeta,
           SingleCall(callProvider("update", endpoint.contract, binding.update,
               asObject(passUpdate(SbisServiceOptions, "", data, JsUndefined)))))

\* Remote.copy(key, meta)
Copy(key) ==
    Invoke("copy", key, Null, NoMeta,
           SingleCall(callProvider("copy", endpoint.contract, binding.copy,
                                   passCopy(key, NoMeta))))

\* Remote.merge(from, to)
Merge(from, to) ==
    Invoke("merge", from, to, NoMeta,
           SingleCall(callProvider("merge", endpoint.contract, binding.merge,
                                   passMerge(from, to))))

\* Rpc.call(command, data)
Call(command, data) ==
    Invoke("call", data, Null, NoMeta,
           SingleCall(callProvider("call", endpoint.contract, command, data)))

\* SbisService.create(meta) and SbisService.query(query) hand a callback to
\* _loadAdditionalDependencies and return: the call is made by the callback.
\* query() keeps what clonePlain hands it for its query.
Deferred(kind, input) ==
    /\ Len(ops) < MaxOps
    /\ Len(calls) + Cardinality({k \in 1..Len(ops) : ops[k].st = "loading"}) < MaxCalls
    /\ ops' = Append(ops,
          [kind |-> kind, input |-> input, target |-> Null, meta |-> NoMeta,
           notices |-> 0, calls |-> <<>>, err |-> 0, firstRejected |-> 0,
           st |-> "loading"])
    /\ UNCHANGED <<cfgVars, calls, server, abortCalls, cidVars, grpVars, navVars, mnVars, updVars, dbVars, qryVars>>

Create(meta) == Deferred("create", meta)

SourceQuery(query) == Deferred("query", query)

\* the callback of _loadAdditionalDependencies: super.create(meta) or
\* super.query(query) of Remote, which calls the provider
DependenciesLoaded(k) ==
    /\ ops[k].st = "loading"
    /\ LET call == IF ops[k].kind = "create"
                   THEN callProvider("create", endpoint.contract, binding.create,
                                     passCreate(ops[k].input))
                   ELSE callProvider("query", endpoint.contract, binding.query,
                                     passQuery(ops[k].input, SbisServiceOptions).args)
       IN  /\ calls' = Append(calls, call)
           /\ ops' = [ops EXCEPT ![k].calls = <<Len(calls) + 1>>, ![k].st = "pending"]
    /\ UNCHANGED <<cfgVars, server, abortCalls, cidVars, grpVars, navVars, mnVars, updVars, dbVars, qryVars>>

\* the Deferred of _loadAdditionalDependencies() answers an operation whose
\* call the transport resolved: the result is prepared and the promise given
\* to the caller resolves
DependenciesAnswer(k) ==
    /\ NoneQueued
    /\ AwaitsDependencies(ops[k])
    /\ ops[k].st = "pending"
    /\ Len(ops[k].calls) = 1
    /\ calls[ops[k].calls[1]].result = "resolved"
    /\ ops' = [ops EXCEPT ![k].st = "resolved"]
    /\ UNCHANGED <<cfgVars, calls, server, abortCalls, cidVars, grpVars, navVars, mnVars, updVars, dbVars, qryVars>>

\* read('1'), copy('1'), merge('1', '2'), call('Cmd', {a: 1}), create(),
\* update(model), query(a query of 50 from 0 with the filter {a: 1})
Next ==
    \/ \E keys \in DestroyInputs : Destroy(keys)
    \/ \E m \in MoveInputs : Move(m.items, m.target, m.meta)
    \/ \E name \in OrderProperties : SetOrderProperty(name)
    \/ Read(Str(<<49>>))
    \/ RemoteUpdate(Model("id", Val(5), <<"a">>, FALSE))
    \/ Copy(Str(<<49>>))
    \/ Merge(Str(<<49>>), Str(<<50>>))
    \/ Call(<<67, 109, 100>>, [a |-> 1])
    \/ Create(<<>>)
    \/ SourceQuery(Query(0, Num(50), EmptyMeta, << [key |-> <<97>>, value |-> Val(1)] >>, <<>>))
    \/ \E k \in 1..Len(ops) : DependenciesLoaded(k)
    \/ \E k \in 1..Len(ops) : DependenciesAnswer(k)
    \/ \E i \in 1..Len(calls) : ProviderCall(i)
    \/ \E i \in 1..Len(calls) : TimeoutExpires(i)
    \/ \E i \in 1..Len(calls) : OriginResolves(i)
    \/ \E i \in 1..Len(calls) : OriginRejects(i)

Spec == Init /\ [][Next]_vars

====
